---- MODULE Spec2Model ----
(***************************************************************************)
(* Event dispatch of matrix_sdk::event_handler (src/matrix_sdk/src/        *)
(* event_handler/mod.rs).                                                  *)
(*                                                                         *)
(* One sync response is walked by handle_sync in a fixed order; every      *)
(* envelope is deserialized, routed by its handle_*_event function to a    *)
(* callback, and the handlers registered for that callback are awaited one *)
(* after the other.  Handler results go through                            *)
(* EventHandlerResult::print_error.                                        *)
(***************************************************************************)
EXTENDS Naturals, Sequences, FiniteSets

VARIABLES
    response,      \* the SyncResponse being dispatched
    rooms,         \* the room ids get_room resolves
    registry,      \* callback name -> registered handlers, in order
    next_handle,   \* the next handler id register gives out
    reg_version,   \* number of changes made to the registry
    store_ops,     \* number of changes made to the room store
    pass,          \* handle_sync calls entered
    suspended,     \* the handle_sync calls the executor is not polling,
                   \* and those that panicked
    cur,           \* the number of the handle_sync call that is polled
    pc,            \* "idle", "dispatch" or "panicked"
    todo,          \* the loops of handle_sync it has not reached yet
    skipped,       \* the loops get_room answered None for
    plan,          \* the items of the loops it has entered
    cursor,        \* how many of them it has reached
    snapshot,      \* handlers still to invoke for the current item
    running,       \* handler futures created and not yet completed
    calls,         \* handler invocations of the current pass, in order
    pass_version,  \* reg_version when the current pass started
    hist,          \* one record per completed pass
    log,           \* what print_error wrote
    failures,      \* handler invocations that returned Err
    fault_at       \* the invocation that panicked (0: none)

vars == << response, rooms, registry, next_handle, reg_version, store_ops,
           pass, suspended, cur, pc, todo, skipped, plan, cursor, snapshot,
           running, calls, pass_version, hist, log, failures, fault_at >>

----------------------------------------------------------------------------
(* Bounds of the model.                                                    *)

\* events per collection of a response
MaxLen == 2
\* rooms per bucket (join / leave / invite) of a response
MaxRooms == 2
\* handlers registered per callback
MaxHandlers == 2
\* dispatch passes (handle_sync calls) per behaviour
MaxPasses == 2
\* handler invocations that return Err per behaviour
MaxFailures == 1
\* register and unregister calls per behaviour
MaxOps == 4
\* changes of the room store per behaviour
MaxStoreOps == 1

----------------------------------------------------------------------------
(* Envelopes: Raw<Any...Event>.  `type` is the event type string,          *)
(* `state_key` / `redacted` are what the Any*Event deserializer looks at,  *)
(* `valid` is whether e.deserialize() returns Ok.                          *)

Ev(t) == [type |-> t, state_key |-> FALSE, redacted |-> FALSE, valid |-> TRUE]
StateEv(t) == [type |-> t, state_key |-> TRUE, redacted |-> FALSE, valid |-> TRUE]
RedactedEv(t) == [type |-> t, state_key |-> FALSE, redacted |-> TRUE, valid |-> TRUE]
RedactedStateEv(t) == [type |-> t, state_key |-> TRUE, redacted |-> TRUE, valid |-> TRUE]
BadEv(t) == [type |-> t, state_key |-> FALSE, redacted |-> FALSE, valid |-> FALSE]

NoCallback == "none"
NoDisc == "none"
Route(cb, disc) == [cb |-> cb, disc |-> disc]
NoRoute == Route(NoCallback, NoDisc)

\* e.deserialize().ok() of the filter_map calls in handle_sync
Deserializes(e) == e.valid

\* the state event types AnySyncStateEvent has a variant for and the
\* handlers ignore
IgnoredStateTypes ==
    { "m.policy.rule.room", "m.policy.rule.server", "m.policy.rule.user",
      "m.room.create", "m.room.encryption", "m.room.guest_access",
      "m.room.history_visibility", "m.room.pinned_events",
      "m.room.server_acl", "m.room.third_party_invite", "m.room.topic",
      "m.space.child", "m.space.parent" }

\* the message event types AnySyncMessageEvent has a variant for and
\* handle_timeline_event ignores
IgnoredMessageTypes ==
    { "m.key.verification.ready", "m.key.verification.start",
      "m.key.verification.cancel", "m.key.verification.accept",
      "m.key.verification.key", "m.key.verification.mac",
      "m.key.verification.done", "m.room.encrypted", "m.sticker" }

handle_account_data_event(e) ==
    CASE e.type = "m.ignored_user_list" -> Route("on_non_room_ignored_users", NoDisc)
      [] e.type = "m.push_rules" -> Route("on_non_room_push_rules", NoDisc)
      [] OTHER -> NoRoute

handle_ephemeral_event(e) ==
    CASE e.type = "m.typing" -> Route("on_non_room_typing", NoDisc)
      [] e.type = "m.receipt" -> Route("on_non_room_receipt", NoDisc)
      [] OTHER -> NoRoute

handle_room_account_data_event(e) ==
    IF e.type = "m.fully_read"
    THEN Route("on_non_room_fully_read", NoDisc)
    ELSE NoRoute

\* handle_state_event with an empty catch-all arm
handle_state_event_drops_unknown(e) ==
    CASE e.type = "m.room.member" -> Route("on_state_member", NoDisc)
      [] e.type = "m.room.name" -> Route("on_state_name", NoDisc)
      [] e.type = "m.room.canonical_alias" -> Route("on_state_canonical_alias", NoDisc)
      [] e.type = "m.room.aliases" -> Route("on_state_aliases", NoDisc)
      [] e.type = "m.room.avatar" -> Route("on_state_avatar", NoDisc)
      [] e.type = "m.room.power_levels" -> Route("on_state_power_levels", NoDisc)
      [] e.type = "m.room.join_rules" -> Route("on_state_join_rules", NoDisc)
      [] e.type = "m.room.tombstone" -> Route("on_room_tombstone", NoDisc)
      [] OTHER -> NoRoute

\* handle_state_event with the catch-all arm alone
handle_state_event_custom_only(e) == Route("on_custom_event", "state")

\* AnySyncStateEvent has no variants for redacted events: a redacted
\* event of a state collection is matched by its type like any other
handle_state_event(e) ==
    CASE e.type = "m.room.member" -> Route("on_state_member", NoDisc)
      [] e.type = "m.room.name" -> Route("on_state_name", NoDisc)
      [] e.type = "m.room.canonical_alias" -> Route("on_state_canonical_alias", NoDisc)
      [] e.type = "m.room.aliases" -> Route("on_state_aliases", NoDisc)
      [] e.type = "m.room.avatar" -> Route("on_state_avatar", NoDisc)
      [] e.type = "m.room.power_levels" -> Route("on_state_power_levels", NoDisc)
      [] e.type = "m.room.join_rules" -> Route("on_state_join_rules", NoDisc)
      [] e.type = "m.room.tombstone" -> Route("on_room_tombstone", NoDisc)
      [] e.type \in IgnoredStateTypes -> NoRoute
      [] OTHER -> Route("on_custom_event", "state")

handle_stripped_state_event(e) ==
    CASE e.type = "m.room.member" -> Route("on_stripped_state_member", NoDisc)
      [] e.type = "m.room.name" -> Route("on_stripped_state_name", NoDisc)
      [] e.type = "m.room.canonical_alias" -> Route("on_stripped_state_canonical_alias", NoDisc)
      [] e.type = "m.room.aliases" -> Route("on_stripped_state_aliases", NoDisc)
      [] e.type = "m.room.avatar" -> Route("on_stripped_state_avatar", NoDisc)
      [] e.type = "m.room.power_levels" -> Route("on_stripped_state_power_levels", NoDisc)
      [] e.type = "m.room.join_rules" -> Route("on_stripped_state_join_rules", NoDisc)
      [] OTHER -> NoRoute

\* the AnySyncRoomEvent::State arm of handle_timeline_event
timeline_state_event(e) ==
    CASE e.type = "m.room.member" -> Route("on_room_member", NoDisc)
      [] e.type = "m.room.name" -> Route("on_room_name", NoDisc)
      [] e.type = "m.room.canonical_alias" -> Route("on_room_canonical_alias", NoDisc)
      [] e.type = "m.room.aliases" -> Route("on_room_aliases", NoDisc)
      [] e.type = "m.room.avatar" -> Route("on_room_avatar", NoDisc)
      [] e.type = "m.room.power_levels" -> Route("on_room_power_levels", NoDisc)
      [] e.type = "m.room.tombstone" -> Route("on_room_tombstone", NoDisc)
      [] e.type = "m.room.join_rules" -> Route("on_room_join_rules", NoDisc)
      [] e.type \in IgnoredStateTypes -> NoRoute
      [] OTHER -> Route("on_custom_event", "state")

\* the AnySyncRoomEvent::Message arm of handle_timeline_event
timeline_message_event(e) ==
    CASE e.type = "m.room.message" -> Route("on_room_message", NoDisc)
      [] e.type = "m.room.message.feedback" -> Route("on_room_message_feedback", NoDisc)
      [] e.type = "m.room.redaction" -> Route("on_room_redaction", NoDisc)
      [] e.type = "m.reaction" -> Route("on_room_reaction", NoDisc)
      [] e.type = "m.call.invite" -> Route("on_room_call_invite", NoDisc)
      [] e.type = "m.call.answer" -> Route("on_room_call_answer", NoDisc)
      [] e.type = "m.call.candidates" -> Route("on_room_call_candidates", NoDisc)
      [] e.type = "m.call.hangup" -> Route("on_room_call_hangup", NoDisc)
      [] e.type \in IgnoredMessageTypes -> NoRoute
      [] OTHER -> Route("on_custom_event", "message")

handle_timeline_event(e) ==
    CASE e.state_key /\ ~e.redacted -> timeline_state_event(e)
      [] ~e.state_key /\ ~e.redacted -> timeline_message_event(e)
      [] e.state_key /\ e.redacted -> NoRoute
      [] OTHER -> NoRoute

\* self.on_presence_event(&event)
handle_presence_event(e) == Route("on_presence_event", NoDisc)

\* self.on_room_notification(room.clone(), notification.clone())
handle_notification(e) == Route("on_room_notification", NoDisc)

----------------------------------------------------------------------------
(* handle_sync: the traversal of one SyncResponse.  An item is one         *)
(* envelope the loops iterate over, with the place it came from and the    *)
(* callback its handle_*_event function routes it to.                      *)

\* room: None of InternalEventHandlerCtx, and the room of an envelope that
\* is in no room
NoRoom == 0

\* a room store that has every room
get_room_any(room_id) == TRUE

\* self.get_room(room_id) returns Some
get_room(room_id) == room_id \in rooms

\* an envelope routed by its type whether it deserializes or not
Item_routes_undecoded(phase, room, coll, i, e, route) ==
    [phase |-> phase, room |-> room, coll |-> coll, idx |-> i, ev |-> e,
     decoded |-> Deserializes(e), route |-> route]

Item(phase, room, coll, i, e, route) ==
    [phase |-> phase, room |-> room, coll |-> coll, idx |-> i, ev |-> e,
     decoded |-> Deserializes(e),
     route |-> IF Deserializes(e) THEN route ELSE NoRoute]

RECURSIVE Flatten(_)
Flatten(seqs) ==
    IF seqs = << >> THEN << >> ELSE Head(seqs) \o Flatten(Tail(seqs))

\* events.iter().filter_map(|e| e.deserialize().ok()): an undecodable
\* envelope is passed over and the loop goes on with the next one
AccountDataItems(events) ==
    [i \in 1..Len(events) |->
        Item("account_data", 0, "account_data", i, events[i],
             handle_account_data_event(events[i]))]

EphemeralItems(phase, room_id, events) ==
    [i \in 1..Len(events) |->
        Item(phase, room_id, "ephemeral", i, events[i],
             handle_ephemeral_event(events[i]))]

RoomAccountDataItems(phase, room_id, events) ==
    [i \in 1..Len(events) |->
        Item(phase, room_id, "room_account_data", i, events[i],
             handle_room_account_data_event(events[i]))]

StateItems(phase, room_id, events) ==
    [i \in 1..Len(events) |->
        Item(phase, room_id, "state", i, events[i],
             handle_state_event(events[i]))]

TimelineItems(phase, room_id, events) ==
    [i \in 1..Len(events) |->
        Item(phase, room_id, "timeline", i, events[i],
             handle_timeline_event(events[i]))]

StrippedStateItems(phase, room_id, events) ==
    [i \in 1..Len(events) |->
        Item(phase, room_id, "invite_state", i, events[i],
             handle_stripped_state_event(events[i]))]

\* presence events that are dispatched only when some room resolves
PresenceItems_needs_rooms(events) ==
    IF rooms = {}
    THEN << >>
    ELSE [i \in 1..Len(events) |->
            Item("presence", 0, "presence", i, events[i],
                 handle_presence_event(events[i]))]

\* for event in response.presence.events.iter().filter_map(..)
PresenceItems(events) ==
    [i \in 1..Len(events) |->
        Item("presence", 0, "presence", i, events[i],
             handle_presence_event(events[i]))]

\* for notification in notifications: the loop has no deserialize step,
\* every Notification of the room goes to on_room_notification as it is,
\* whatever the raw event it carries
NotificationItems(room_id, events) ==
    [i \in 1..Len(events) |->
        [phase |-> "notifications", room |-> room_id,
         coll |-> "notifications", idx |-> i, ev |-> events[i],
         decoded |-> TRUE, route |-> handle_notification(events[i])]]

\* a joined room walked timeline first, state last
JoinedRoomItems_timeline_first(r) ==
    EphemeralItems("join", r.room_id, r.ephemeral)
    \o RoomAccountDataItems("join", r.room_id, r.account_data)
    \o TimelineItems("join", r.room_id, r.timeline)
    \o StateItems("join", r.room_id, r.state)

\* the body of `for (room_id, room_info) in &response.rooms.join`
JoinedRoomItems(r) ==
    EphemeralItems("join", r.room_id, r.ephemeral)
    \o RoomAccountDataItems("join", r.room_id, r.account_data)
    \o StateItems("join", r.room_id, r.state)
    \o TimelineItems("join", r.room_id, r.timeline)

\* a left room walked timeline first
LeftRoomItems_timeline_first(r) ==
    TimelineItems("leave", r.room_id, r.timeline)
    \o RoomAccountDataItems("leave", r.room_id, r.account_data)
    \o StateItems("leave", r.room_id, r.state)

\* the body of `for (room_id, room_info) in &response.rooms.leave`
LeftRoomItems(r) ==
    RoomAccountDataItems("leave", r.room_id, r.account_data)
    \o StateItems("leave", r.room_id, r.state)
    \o TimelineItems("leave", r.room_id, r.timeline)

\* the invite_state of an invited room handed to handle_state_event
InvitedRoomItems_as_state(r) ==
    StateItems("invite", r.room_id, r.invite_state)

\* the body of `for (room_id, room_info) in &response.rooms.invite`
InvitedRoomItems(r) ==
    StrippedStateItems("invite", r.room_id, r.invite_state)

\* one loop of handle_sync with what it iterates over: the loop over a
\* collection of the response (room: NoRoom), or the body of a loop over
\* rooms for one room, which is entered when get_room(room) answers Some
Segment(phase, room, items) ==
    [phase |-> phase, room |-> room, items |-> items]

\* handle_sync with the loop over the left rooms ahead of the joined rooms
handle_sync_leave_first ==
    << Segment("account_data", NoRoom, AccountDataItems(response.account_data)) >>
    \o [k \in 1..Len(response.leave) |->
          Segment("leave", response.leave[k].room_id,
                  LeftRoomItems(response.leave[k]))]
    \o [k \in 1..Len(response.join) |->
          Segment("join", response.join[k].room_id,
                  JoinedRoomItems(response.join[k]))]
    \o [k \in 1..Len(response.invite) |->
          Segment("invite", response.invite[k].room_id,
                  InvitedRoomItems(response.invite[k]))]
    \o << Segment("presence", NoRoom, PresenceItems(response.presence)) >>
    \o [k \in 1..Len(response.notifications) |->
          Segment("notifications", response.notifications[k].room_id,
                  NotificationItems(response.notifications[k].room_id,
                                    response.notifications[k].events))]

\* handle_sync with the notifications of the response ahead of presence
handle_sync_notifications_early ==
    << Segment("account_data", NoRoom, AccountDataItems(response.account_data)) >>
    \o [k \in 1..Len(response.join) |->
          Segment("join", response.join[k].room_id,
                  JoinedRoomItems(response.join[k]))]
    \o [k \in 1..Len(response.leave) |->
          Segment("leave", response.leave[k].room_id,
                  LeftRoomItems(response.leave[k]))]
    \o [k \in 1..Len(response.invite) |->
          Segment("invite", response.invite[k].room_id,
                  InvitedRoomItems(response.invite[k]))]
    \o [k \in 1..Len(response.notifications) |->
          Segment("notifications", response.notifications[k].room_id,
                  NotificationItems(response.notifications[k].room_id,
                                    response.notifications[k].events))]
    \o << Segment("presence", NoRoom, PresenceItems(response.presence)) >>

\* handle_sync: its loops in the order of the code.  The loop over the
\* global account data and the one over the presence events are entered
\* as they are; for every room of rooms.join, rooms.leave, rooms.invite
\* and notifications the body is entered when get_room answers Some, which
\* is asked when the loop gets to the room
handle_sync ==
    << Segment("account_data", NoRoom, AccountDataItems(response.account_data)) >>
    \o [k \in 1..Len(response.join) |->
          Segment("join", response.join[k].room_id,
                  JoinedRoomItems(response.join[k]))]
    \o [k \in 1..Len(response.leave) |->
          Segment("leave", response.leave[k].room_id,
                  LeftRoomItems(response.leave[k]))]
    \o [k \in 1..Len(response.invite) |->
          Segment("invite", response.invite[k].room_id,
                  InvitedRoomItems(response.invite[k]))]
    \o << Segment("presence", NoRoom, PresenceItems(response.presence)) >>
    \o [k \in 1..Len(response.notifications) |->
          Segment("notifications", response.notifications[k].room_id,
                  NotificationItems(response.notifications[k].room_id,
                                    response.notifications[k].events))]

\* the items of the loops segs in order, without those of the loops sk
LoopItems(segs, sk) ==
    Flatten([k \in 1..Len(segs) |->
        IF [phase |-> segs[k].phase, room |-> segs[k].room] \in sk
        THEN << >>
        ELSE segs[k].items])

\* the items handle_sync iterates over when get_room answers None for the
\* loops sk and Some for the others
PlanWith(sk) == LoopItems(handle_sync, sk)

----------------------------------------------------------------------------
(* The handler registry: callback name -> handlers in registration order.  *)
(* A handler entry is [id, tag, shape, ret]: `shape` is the context type   *)
(* of its EventHandler impl ("none" for (), "room" for RoomEventCtx,       *)
(* "global" for GlobalEventCtx), `ret` its return type ("unit" for (),     *)
(* "result" for Result<(), E>).                                            *)

TagSeq ==
    << "on_non_room_ignored_users", "on_non_room_push_rules",
       "on_non_room_typing", "on_non_room_receipt", "on_non_room_fully_read",
       "on_state_member", "on_state_name", "on_state_canonical_alias",
       "on_state_aliases", "on_state_avatar", "on_state_power_levels",
       "on_state_join_rules",
       "on_room_member", "on_room_name", "on_room_canonical_alias",
       "on_room_aliases", "on_room_avatar", "on_room_power_levels",
       "on_room_tombstone", "on_room_join_rules",
       "on_room_message", "on_room_message_feedback", "on_room_redaction",
       "on_room_reaction", "on_room_call_invite", "on_room_call_answer",
       "on_room_call_candidates", "on_room_call_hangup",
       "on_stripped_state_member", "on_stripped_state_name",
       "on_stripped_state_canonical_alias", "on_stripped_state_aliases",
       "on_stripped_state_avatar", "on_stripped_state_power_levels",
       "on_stripped_state_join_rules",
       "on_presence_event", "on_room_notification", "on_custom_event" >>

Tags == { TagSeq[i] : i \in 1..Len(TagSeq) }

TagIndex(t) == CHOOSE i \in 1..Len(TagSeq) : TagSeq[i] = t

\* callbacks of events outside any room's scope (NonRoomEvent): the global
\* account data
NonRoomTags ==
    { "on_non_room_ignored_users", "on_non_room_push_rules" }

\* callbacks whose event type has neither a RoomEvent nor a NonRoomEvent
\* impl: PresenceEvent, SyncRedactionEvent, Notification and CustomEvent
UnscopedTags ==
    { "on_presence_event", "on_room_redaction", "on_room_notification",
      "on_custom_event" }

\* callbacks of events in the scope of a room (RoomEvent): those of a
\* SyncEphemeralRoomEvent, RoomAccountDataEvent, SyncStateEvent,
\* SyncMessageEvent or StrippedStateEvent
RoomTags == Tags \ (NonRoomTags \cup UnscopedTags)

\* an event type without a StaticEvent impl has no EVENT_TYPE
NoEventType == "none"

\* <Ev as StaticEvent>::EVENT_TYPE of the event type of a callback: the
\* file has the one impl, for StrippedStateEvent<MemberEventContent>, with
\* EVENT_TYPE = "m.room.member"
StaticEvent_EVENT_TYPE(tag) ==
    IF tag = "on_stripped_state_member" THEN "m.room.member" ELSE NoEventType

\* callbacks whose event type has a StaticEvent impl
StaticEventTags == { t \in Tags : StaticEvent_EVENT_TYPE(t) # NoEventType }

\* an impl for handlers with a RoomEventCtx that has an event type of its
\* own
EventHandler_EVENT_TYPE_room_fixed(tag, shape) ==
    CASE shape = "none" -> StaticEvent_EVENT_TYPE(tag)
      [] shape = "room" -> "m.room.message"
      [] shape = "global" -> StaticEvent_EVENT_TYPE(tag)

\* <F as EventHandler<Ev, Ctx>>::EVENT_TYPE of a handler for the event
\* type of a callback: const EVENT_TYPE = Ev::EVENT_TYPE in the impl for
\* Ctx = (), in the one for RoomEventCtx and in the one for GlobalEventCtx
EventHandler_EVENT_TYPE(tag, shape) ==
    CASE shape = "none" -> StaticEvent_EVENT_TYPE(tag)
      [] shape = "room" -> StaticEvent_EVENT_TYPE(tag)
      [] shape = "global" -> StaticEvent_EVENT_TYPE(tag)

Shapes == { "none", "room", "global" }

\* EventHandler impls without the RoomEvent and NonRoomEvent bounds
ShapeAllowed_unbounded(tag, shape) ==
    tag \in StaticEventTags /\ shape \in Shapes

\* the bounds of the three EventHandler impls: Ev: StaticEvent,
\* Ev: StaticEvent + RoomEvent, Ev: StaticEvent + NonRoomEvent
ShapeAllowed(tag, shape) ==
    /\ tag \in StaticEventTags
    /\ \/ shape = "none"
       \/ shape = "room" /\ tag \in RoomTags
       \/ shape = "global" /\ tag \in NonRoomTags

Handler(id, tag, shape, ret) ==
    [id |-> id, tag |-> tag, shape |-> shape, ret |-> ret]

\* a lookup that answers with a default handler for a tag without handlers
lookup_or_default(tag) ==
    IF registry[tag] = << >>
    THEN << Handler(0, tag, "none", "unit") >>
    ELSE registry[tag]

\* the handlers of a tag, the one registered last first
lookup_newest_first(tag) ==
    [i \in 1..Len(registry[tag]) |-> registry[tag][Len(registry[tag]) + 1 - i]]

\* lookup(tag): the handlers of a tag, in registration order
lookup(tag) == registry[tag]

\* register: the entry goes to the end of the list of its tag
register(reg, h) == [reg EXCEPT ![h.tag] = Append(@, h)]

\* an unregister that removes the list the handle's entry is in
unregister_whole_tag(reg, handle) ==
    [t \in Tags |->
        IF \E i \in 1..Len(reg[t]) : reg[t][i].id = handle
        THEN << >>
        ELSE reg[t]]

\* unregister: the registry without the entry of the handle
unregister(reg, handle) ==
    [t \in Tags |-> SelectSeq(reg[t], LAMBDA h : h.id # handle)]

\* the registry of the specification after n rounds of one handler per
\* callback, as it is once every event type has its StaticEvent impl (the
\* impls are to move to Ruma): a handler's context follows the RoomEvent
\* and NonRoomEvent impls of its event type, every second round takes none
RegistryWith(n) ==
    [t \in Tags |->
        [j \in 1..n |->
            Handler((j - 1) * Len(TagSeq) + TagIndex(t), t,
                    IF j % 2 = 0 THEN "none"
                    ELSE IF t \in RoomTags THEN "room"
                    ELSE IF t \in NonRoomTags THEN "global" ELSE "none",
                    IF j % 2 = 0 THEN "unit" ELSE "result")]]

----------------------------------------------------------------------------
(* Context building: InternalEventHandlerCtx {client, raw, room} and the   *)
(* From impls into RoomEventCtx and GlobalEventCtx.                        *)

InternalEventHandlerCtx(item) ==
    [client |-> "client", raw |-> item.ev, room |-> item.room]

\* a conversion that hands on whatever room field it gets
RoomEventCtx_from_unchecked(ctx) ==
    [ok |-> TRUE, shape |-> "room", client |-> ctx.client,
     raw |-> ctx.raw, room |-> ctx.room]

\* ctx.room.expect("Missing room context for room event handler")
RoomEventCtx_from(ctx) ==
    IF ctx.room = NoRoom
    THEN [ok |-> FALSE, shape |-> "room", client |-> ctx.client,
          raw |-> ctx.raw, room |-> NoRoom]
    ELSE [ok |-> TRUE, shape |-> "room", client |-> ctx.client,
          raw |-> ctx.raw, room |-> ctx.room]

\* a global context that keeps the room of the internal context
GlobalEventCtx_from_with_room(ctx) ==
    [ok |-> TRUE, shape |-> "global", client |-> ctx.client,
     raw |-> ctx.raw, room |-> ctx.room]

\* Self { client: ctx.client, raw: ctx.raw }
GlobalEventCtx_from(ctx) ==
    [ok |-> TRUE, shape |-> "global", client |-> ctx.client,
     raw |-> ctx.raw, room |-> NoRoom]

UnitCtx_from(ctx) ==
    [ok |-> TRUE, shape |-> "none", client |-> "none",
     raw |-> ctx.raw, room |-> NoRoom]

BuildCtx(shape, ctx) ==
    CASE shape = "room" -> RoomEventCtx_from(ctx)
      [] shape = "global" -> GlobalEventCtx_from(ctx)
      [] OTHER -> UnitCtx_from(ctx)

----------------------------------------------------------------------------
(* Handler results.                                                        *)

\* what a handler future can return: () for a handler returning (),
\* Ok(()) or Err(e) for one returning Result<(), E>
Outputs(h) ==
    IF h.ret = "unit" THEN { "unit" } ELSE { "ok", "err" }

\* a print_error that writes an entry for Ok(()) as well
print_error_logs_ok(output, event_type, e) ==
    IF output \in { "ok", "err" }
    THEN << [event_type |-> event_type, error |-> e] >>
    ELSE << >>

\* an error that is reported by print_error and by its caller
print_error_twice(output, event_type, e) ==
    IF output = "err"
    THEN << [event_type |-> event_type, error |-> e],
            [event_type |-> event_type, error |-> e] >>
    ELSE << >>

\* EventHandlerResult::print_error: the entries it writes to the error
\* log, tracing::error!("Event handler for `{}` failed: {}", event_type, e)
print_error(output, event_type, e) ==
    IF output = "err"
    THEN << [event_type |-> event_type, error |-> e] >>
    ELSE << >>

\* a panic in a handler future unwinds through handle_sync
PanicAborts == TRUE

----------------------------------------------------------------------------
(* Sync responses the model dispatches.  A response is                     *)
(* [account_data, join, leave, invite, presence, notifications]; the room  *)
(* maps are BTreeMaps and iterate in room id order.                        *)

GlobalPool ==
    << Ev("com.example.custom"), Ev("m.ignored_user_list"),
       Ev("m.push_rules"), BadEv("m.push_rules") >>

EphemeralPool ==
    << Ev("m.receipt"), Ev("m.typing"), Ev("com.example.ephemeral"),
       BadEv("m.receipt") >>

RoomAccountDataPool ==
    << Ev("m.fully_read"), Ev("m.tag"), BadEv("m.fully_read") >>

StatePool ==
    << StateEv("m.room.power_levels"), StateEv("m.room.member"),
       StateEv("com.example.state"), StateEv("m.room.topic"),
       BadEv("m.room.member"), StateEv("m.room.tombstone") >>

TimelinePool ==
    << Ev("m.room.message"), StateEv("m.room.member"),
       Ev("com.example.message"), RedactedEv("m.room.message"),
       BadEv("m.room.message"), RedactedStateEv("m.room.member"),
       Ev("m.sticker") >>

StrippedStatePool ==
    << StateEv("m.room.name"), StateEv("m.room.member"),
       StateEv("m.room.topic"), BadEv("m.room.name") >>

PresencePool ==
    << Ev("m.presence"), Ev("m.presence"), BadEv("m.presence") >>

\* notifications: the raw event of the second one does not deserialize
NotificationPool == << Ev("notification"), BadEv("notification") >>

\* n envelopes of a pool, from offset off on, cyclically
Take(pool, n, off) ==
    [i \in 1..n |-> pool[((off + i - 1) % Len(pool)) + 1]]

\* the pool offsets responses are built with
Variants == 0..2

JoinedRoom(k, len, v) ==
    [room_id |-> k,
     ephemeral |-> Take(EphemeralPool, len, v + k - 1),
     account_data |-> Take(RoomAccountDataPool, len, v + k - 1),
     state |-> Take(StatePool, len, v + 2 * (k - 1)),
     timeline |-> Take(TimelinePool, len, v + 2 * (k - 1))]

LeftRoom(k, len, v) ==
    [room_id |-> 10 + k,
     account_data |-> Take(RoomAccountDataPool, len, v + k),
     state |-> Take(StatePool, len, v + k),
     timeline |-> Take(TimelinePool, len, v + k)]

InvitedRoom(k, len, v) ==
    [room_id |-> 20 + k,
     invite_state |-> Take(StrippedStatePool, len, v + k - 1)]

RoomNotifications(room_id, len) ==
    [room_id |-> room_id, events |-> Take(NotificationPool, len, 0)]

MkResponse(s, v) ==
    [account_data |-> Take(GlobalPool, s.g, v),
     join |-> [k \in 1..s.j |-> JoinedRoom(k, s.len, v)],
     leave |-> [k \in 1..s.l |-> LeftRoom(k, s.len, v)],
     invite |-> [k \in 1..s.i |-> InvitedRoom(k, s.len, v)],
     presence |-> Take(PresencePool, s.p, v),
     notifications |->
        [k \in 1..s.j |-> RoomNotifications(k, s.len)]
        \o [k \in 1..s.l |-> RoomNotifications(10 + k, s.len)]]

\* sizes: one envelope per collection and one room per bucket, with at
\* most one of the sizes different
Sizes ==
    { s \in [g : 0..MaxLen, j : 0..MaxRooms, l : 0..MaxRooms,
             i : 0..MaxRooms, p : 0..MaxLen, len : 1..MaxLen] :
        Cardinality({ f \in {"g", "j", "l", "i", "p", "len"} : s[f] # 1 }) <= 1 }

\* the end-to-end scenario: an unrecognized global account-data event, a
\* receipt, a power-levels state event, a message and a presence event
ScenarioResponse ==
    [account_data |-> << Ev("com.example.custom") >>,
     join |-> << [room_id |-> 1,
                  ephemeral |-> << Ev("m.receipt") >>,
                  account_data |-> << >>,
                  state |-> << StateEv("m.room.power_levels") >>,
                  timeline |-> << Ev("m.room.message") >>] >>,
     leave |-> << >>,
     invite |-> << >>,
     presence |-> << Ev("m.presence") >>,
     notifications |-> << >>]

\* a response with one invited room with the given stripped state, and a
\* presence event
InviteResponse(stripped) ==
    [account_data |-> << >>,
     join |-> << >>,
     leave |-> << >>,
     invite |-> << [room_id |-> 21, invite_state |-> stripped] >>,
     presence |-> << Ev("m.presence") >>,
     notifications |-> << >>]

\* the invite of the tests: the name of the room and the membership event
InviteSync ==
    InviteResponse(<< StateEv("m.room.name"), StateEv("m.room.member") >>)

\* a response with one joined room with the given state and timeline
RoutingResponse(st, tl) ==
    [account_data |-> << >>,
     join |-> << [room_id |-> 1,
                  ephemeral |-> << >>,
                  account_data |-> << >>,
                  state |-> st,
                  timeline |-> tl] >>,
     leave |-> << >>,
     invite |-> << >>,
     presence |-> << Ev("m.presence") >>,
     notifications |-> << >>]

\* responses with events of types without a callback of their own, of
\* either shape, with redacted events in the timeline and in the state
\* collection (a state event stays in the state of its room when it is
\* redacted), and with events of one type in the state collection and in
\* the timeline
RoutingResponses ==
    { RoutingResponse(<< StateEv("m.room.topic"), StateEv("com.example.state") >>,
                      << StateEv("com.example.state"), Ev("com.example.message") >>),
      RoutingResponse(<< StateEv("m.room.name"), StateEv("m.room.create") >>,
                      << Ev("m.sticker"), Ev("m.room.message") >>),
      RoutingResponse(<< StateEv("com.example.state"), StateEv("m.room.member") >>,
                      << RedactedStateEv("com.example.state"),
                         StateEv("m.room.topic") >>),
      RoutingResponse(<< StateEv("m.room.name"), RedactedStateEv("m.room.member") >>,
                      << RedactedEv("m.room.message"), Ev("m.room.message") >>),
      RoutingResponse(<< StateEv("m.room.tombstone"), StateEv("m.room.member") >>,
                      << StateEv("m.room.member"), StateEv("m.room.tombstone") >>) }

Responses ==
    { MkResponse(s, v) : s \in Sizes, v \in Variants }
    \cup { ScenarioResponse } \cup RoutingResponses

RoomIds(r) ==
    { r.join[k].room_id : k \in 1..Len(r.join) }
    \cup { r.leave[k].room_id : k \in 1..Len(r.leave) }
    \cup { r.invite[k].room_id : k \in 1..Len(r.invite) }

\* the rooms get_room resolves: all of the response's, all but one, none
RoomChoices(r) ==
    { RoomIds(r), {} } \cup { RoomIds(r) \ {x} : x \in RoomIds(r) }

----------------------------------------------------------------------------
(* The state machine.                                                      *)

InitDispatcher ==
    /\ reg_version = 0
    /\ store_ops = 0
    /\ pass = 0
    /\ suspended = << >>
    /\ cur = 0
    /\ pc = "idle"
    /\ todo = << >>
    /\ skipped = {}
    /\ plan = << >>
    /\ cursor = 0
    /\ snapshot = << >>
    /\ running = {}
    /\ calls = << >>
    /\ pass_version = 0
    /\ hist = << >>
    /\ log = << >>
    /\ failures = 0
    /\ fault_at = 0

Init ==
    /\ response \in Responses
    /\ rooms \in RoomChoices(response)
    /\ \E n \in 0..MaxHandlers :
          /\ registry = RegistryWith(n)
          /\ next_handle = n * Len(TagSeq) + 1
    /\ InitDispatcher

\* a cursor kept from the pass before
KeptCursor == cursor

\* handle_sync starts at the first envelope of the response
StartCursor == 0

\* a handler future that is spawned instead of awaited
NotAwaited == TRUE

\* .await: the next step of handle_sync runs once the awaited handler
\* future has completed
Awaited == running = {}

\* the ids of the handlers in the registry
LiveIds ==
    UNION { { registry[t][i].id : i \in 1..Len(registry[t]) } : t \in Tags }

Call(h, item, ctx) ==
    [handler |-> h.id, tag |-> h.tag, phase |-> item.phase, room |-> item.room,
     coll |-> item.coll, idx |-> item.idx, disc |-> item.route.disc,
     ctx |-> ctx]

\* the future of the handle_sync call that is polled: where it is in its
\* loops, and the handler future it awaits
ThisCall ==
    [cur |-> cur, pc |-> pc, todo |-> todo, skipped |-> skipped, plan |-> plan,
     cursor |-> cursor, snapshot |-> snapshot, running |-> running,
     calls |-> calls, pass_version |-> pass_version, fault_at |-> fault_at]

\* handle_sync(&self, response) is entered.  Nothing in it waits for a
\* call that has not returned: entered while another call is suspended in
\* a handler, it runs next to that call, which stays suspended until the
\* executor polls it again.  A call that panicked has unwound to its caller
\* and left self as it was: handle_sync is entered after it like after a
\* call that returned, and what the call did stays on record
StartPass ==
    /\ pass < MaxPasses
    /\ \/ pc = "idle" /\ suspended' = suspended
       \/ pc = "dispatch" /\ running # {} /\ suspended' = Append(suspended, ThisCall)
       \/ pc = "panicked" /\ suspended' = Append(suspended, ThisCall)
    /\ fault_at' = 0
    /\ pc' = "dispatch"
    /\ pass' = pass + 1
    /\ cur' = pass + 1
    /\ todo' = handle_sync
    /\ skipped' = {}
    /\ plan' = << >>
    /\ cursor' = StartCursor
    /\ snapshot' = << >>
    /\ running' = {}
    /\ calls' = << >>
    /\ pass_version' = reg_version
    /\ UNCHANGED << response, rooms, registry, next_handle, reg_version,
                    store_ops, hist, log, failures >>

\* a sync that starts over while the handle_sync call of the sync before
\* has not returned
Sync_unawaited ==
    /\ pass < MaxPasses
    /\ pc' = "dispatch"
    /\ pass' = pass + 1
    /\ cur' = pass + 1
    /\ todo' = handle_sync
    /\ skipped' = {}
    /\ plan' = << >>
    /\ cursor' = StartCursor
    /\ snapshot' = << >>
    /\ calls' = << >>
    /\ pass_version' = reg_version
    /\ UNCHANGED << response, rooms, registry, next_handle, reg_version,
                    store_ops, suspended, running, hist, log, failures,
                    fault_at >>

\* client.sync_once(..).await of a caller that syncs in sequence, like
\* mock_sync of the tests: handle_sync is entered when the call before it
\* has returned, or has panicked and the caller caught the panic
Sync == pc # "dispatch" /\ StartPass

\* the executor polls another handle_sync call: the one it leaves is
\* suspended in a handler, has returned or has panicked
Switch ==
    /\ running # {} \/ pc # "dispatch"
    /\ \E i \in 1..Len(suspended) :
          /\ suspended[i].pc = "dispatch"
          /\ suspended' = [suspended EXCEPT ![i] = ThisCall]
          /\ cur' = suspended[i].cur
          /\ pc' = suspended[i].pc
          /\ todo' = suspended[i].todo
          /\ skipped' = suspended[i].skipped
          /\ plan' = suspended[i].plan
          /\ cursor' = suspended[i].cursor
          /\ snapshot' = suspended[i].snapshot
          /\ running' = suspended[i].running
          /\ calls' = suspended[i].calls
          /\ pass_version' = suspended[i].pass_version
          /\ fault_at' = suspended[i].fault_at
    /\ UNCHANGED << response, rooms, registry, next_handle, reg_version,
                    store_ops, pass, hist, log, failures >>

\* the room store of the client changes while handle_sync is in progress:
\* a room of the response is added to it or removed from it (a change
\* before a call or between calls is one of the store a call starts with)
StoreChanges ==
    /\ pc = "dispatch"
    /\ store_ops < MaxStoreOps
    /\ \E x \in RoomIds(response) :
          rooms' = IF x \in rooms THEN rooms \ {x} ELSE rooms \cup {x}
    /\ store_ops' = store_ops + 1
    /\ UNCHANGED << response, registry, next_handle, reg_version, pass,
                    suspended, cur, pc, todo, skipped, plan, cursor,
                    snapshot, running, calls, pass_version, hist, log,
                    failures, fault_at >>

\* handle_sync gets to its next loop.  For a room this is where
\* self.get_room(room_id) is called: the body is entered with the Room it
\* answers and passed over when it answers None
NextLoop ==
    /\ pc = "dispatch"
    /\ Awaited
    /\ snapshot = << >>
    /\ cursor >= Len(plan)
    /\ todo # << >>
    /\ LET seg == Head(todo)
       IN  IF seg.room = NoRoom \/ get_room(seg.room)
           THEN /\ plan' = plan \o seg.items
                /\ skipped' = skipped
           ELSE /\ plan' = plan
                /\ skipped' = skipped \cup {[phase |-> seg.phase, room |-> seg.room]}
    /\ todo' = Tail(todo)
    /\ UNCHANGED << response, rooms, registry, next_handle, reg_version,
                    store_ops, pass, suspended, cur, pc, cursor, snapshot,
                    running, calls, pass_version, hist, log, failures,
                    fault_at >>

\* the loop handle_sync is in moves to its next envelope, which is
\* deserialized and routed; the handlers of its callback are looked up
Dispatch ==
    /\ pc = "dispatch"
    /\ Awaited
    /\ snapshot = << >>
    /\ cursor < Len(plan)
    /\ cursor' = cursor + 1
    /\ LET item == plan[cursor + 1]
       IN  snapshot' = IF item.route.cb = NoCallback
                       THEN << >>
                       ELSE lookup(item.route.cb)
    /\ UNCHANGED << response, rooms, registry, next_handle, reg_version,
                    store_ops, pass, suspended, cur, pc, todo, skipped, plan,
                    running, calls, pass_version, hist, log, failures,
                    fault_at >>

\* handle_event: the context is built and the handler future is created
InvokeStart ==
    /\ pc = "dispatch"
    /\ Awaited
    /\ snapshot # << >>
    /\ LET h == Head(snapshot)
           item == plan[cursor]
           ctx == BuildCtx(h.shape, InternalEventHandlerCtx(item))
       IN  IF ctx.ok
           THEN /\ running' = running \cup {[h |-> h, call |-> Len(calls) + 1]}
                /\ snapshot' = Tail(snapshot)
                /\ calls' = Append(calls, Call(h, item, ctx))
                /\ pc' = pc
           ELSE /\ pc' = "panicked"
                /\ UNCHANGED << running, snapshot, calls >>
    /\ UNCHANGED << response, rooms, registry, next_handle, reg_version,
                    store_ops, pass, suspended, cur, todo, skipped, plan,
                    cursor, pass_version, hist, log, failures, fault_at >>

\* a handler that returned Err is put back to be invoked once more
HandlerReturns_redelivers ==
    /\ pc = "dispatch"
    /\ \E r \in running : \E o \in Outputs(r.h) :
          /\ o = "err" => failures < MaxFailures
          /\ running' = running \ {r}
          /\ log' = log \o print_error(o, r.h.tag,
                            [handler |-> r.h.id, call |-> r.call, pass |-> cur])
          /\ failures' = IF o = "err" THEN failures + 1 ELSE failures
          /\ snapshot' = IF o = "err" THEN << r.h >> \o snapshot ELSE snapshot
    /\ UNCHANGED << response, rooms, registry, next_handle, reg_version,
                    store_ops, pass, suspended, cur, pc, todo, skipped, plan,
                    cursor, calls, pass_version, hist, fault_at >>

\* the handler future completes and its output goes to print_error; the
\* error of an Err names the invocation and the pass it came from
HandlerReturns ==
    /\ pc = "dispatch"
    /\ \E r \in running : \E o \in Outputs(r.h) :
          /\ o = "err" => failures < MaxFailures
          /\ running' = running \ {r}
          /\ log' = log \o print_error(o, r.h.tag,
                            [handler |-> r.h.id, call |-> r.call, pass |-> cur])
          /\ failures' = IF o = "err" THEN failures + 1 ELSE failures
    /\ UNCHANGED << response, rooms, registry, next_handle, reg_version,
                    store_ops, pass, suspended, cur, pc, todo, skipped, plan,
                    cursor, snapshot, calls, pass_version, hist, fault_at >>

\* the handler future panics: nothing between the handler and the caller
\* of handle_sync catches the unwinding
HandlerPanics ==
    /\ pc = "dispatch"
    /\ \E r \in running :
          /\ running' = running \ {r}
          /\ fault_at' = r.call
          /\ pc' = IF PanicAborts THEN "panicked" ELSE pc
    /\ UNCHANGED << response, rooms, registry, next_handle, reg_version,
                    store_ops, pass, suspended, cur, todo, skipped, plan,
                    cursor, snapshot, calls, pass_version, hist, log,
                    failures >>

\* a handle_sync that leaves the registry without handlers when it returns
FinishPass_clears_registry ==
    /\ pc = "dispatch"
    /\ Awaited
    /\ snapshot = << >>
    /\ cursor >= Len(plan)
    /\ todo = << >>
    /\ pc' = "idle"
    /\ hist' = Append(hist, [started |-> pass_version, finished |-> reg_version,
                             ids |-> LiveIds, skipped |-> skipped,
                             calls |-> calls])
    /\ registry' = [t \in Tags |-> << >>]
    /\ UNCHANGED << response, rooms, next_handle, reg_version, store_ops,
                    pass, suspended, cur, todo, skipped, plan, cursor,
                    snapshot, running, calls, pass_version, log, failures,
                    fault_at >>

\* handle_sync returns
FinishPass ==
    /\ pc = "dispatch"
    /\ Awaited
    /\ snapshot = << >>
    /\ cursor >= Len(plan)
    /\ todo = << >>
    /\ pc' = "idle"
    /\ hist' = Append(hist, [started |-> pass_version, finished |-> reg_version,
                             ids |-> LiveIds, skipped |-> skipped,
                             calls |-> calls])
    /\ UNCHANGED << response, rooms, registry, next_handle, reg_version,
                    store_ops, pass, suspended, cur, todo, skipped, plan,
                    cursor, snapshot, running, calls, pass_version, log,
                    failures, fault_at >>

\* the caller syncs once
SyncOnce == pass = 0 /\ StartPass

\* one handle_sync call over a response, the room store changing meanwhile
Next ==
    \/ SyncOnce
    \/ NextLoop
    \/ Dispatch
    \/ InvokeStart
    \/ HandlerReturns
    \/ HandlerPanics
    \/ FinishPass
    \/ StoreChanges

Spec == Init /\ [][Next]_vars

\* the callbacks handlers are registered for while passes run: the one
\* whose event type has a StaticEvent impl
RegTags == { "on_stripped_state_member" }

\* the invite with its room resolved, and no handler registered yet
InitReg ==
    /\ response = InviteSync
    /\ rooms = RoomIds(response)
    /\ registry = RegistryWith(0)
    /\ next_handle = 1
    /\ InitDispatcher

\* a register that edits the list in place, under the eyes of a pass that
\* is going through it
Register_in_place ==
    /\ reg_version < MaxOps
    /\ \E tag \in RegTags, shape \in Shapes, ret \in { "unit", "result" } :
          /\ ShapeAllowed(tag, shape)
          /\ registry' = [registry EXCEPT
                            ![tag] = Append(@, Handler(next_handle, tag, shape, ret))]
          /\ snapshot' =
                IF pc = "dispatch" /\ cursor > 0 /\ plan[cursor].route.cb = tag
                THEN Append(snapshot, Handler(next_handle, tag, shape, ret))
                ELSE snapshot
    /\ next_handle' = next_handle + 1
    /\ reg_version' = reg_version + 1
    /\ UNCHANGED << response, rooms, store_ops, pass, suspended, cur, pc,
                    todo, skipped, plan, cursor, running, calls,
                    pass_version, hist, log, failures, fault_at >>

\* register(tag, shape, callback) -> handle, for a tag of tags: the entry
\* goes to the end of the tag's list, which is replaced as a whole
RegisterFor(tags) ==
    /\ reg_version < MaxOps
    /\ \E tag \in tags, shape \in Shapes, ret \in { "unit", "result" } :
          /\ ShapeAllowed(tag, shape)
          /\ registry' = register(registry, Handler(next_handle, tag, shape, ret))
    /\ next_handle' = next_handle + 1
    /\ reg_version' = reg_version + 1
    /\ UNCHANGED << response, rooms, store_ops, pass, suspended, cur, pc,
                    todo, skipped, plan, cursor, snapshot, running, calls,
                    pass_version, hist, log, failures, fault_at >>

Register == RegisterFor(RegTags)

\* an unregister that also takes the entry out of the list a pass is
\* going through
Unregister_in_place ==
    /\ reg_version < MaxOps
    /\ \E handle \in 1..(next_handle - 1) :
          /\ registry' = [t \in Tags |->
                            SelectSeq(registry[t], LAMBDA h : h.id # handle)]
          /\ snapshot' = SelectSeq(snapshot, LAMBDA h : h.id # handle)
          /\ reg_version' = IF handle \in LiveIds
                            THEN reg_version + 1
                            ELSE reg_version
    /\ UNCHANGED << response, rooms, next_handle, store_ops, pass, suspended,
                    cur, pc, todo, skipped, plan, cursor, running, calls,
                    pass_version, hist, log, failures, fault_at >>

\* unregister(handle): removes the entry of the handle; nothing happens
\* when the entry is gone already
Unregister ==
    /\ reg_version < MaxOps
    /\ \E handle \in 1..(next_handle - 1) :
          /\ registry' = unregister(registry, handle)
          /\ reg_version' = IF handle \in LiveIds
                            THEN reg_version + 1
                            ELSE reg_version
    /\ UNCHANGED << response, rooms, next_handle, store_ops, pass, suspended,
                    cur, pc, todo, skipped, plan, cursor, snapshot, running,
                    calls, pass_version, hist, log, failures, fault_at >>

\* syncs one after the other with handlers registered and unregistered at
\* any moment
NextReg ==
    \/ Sync
    \/ NextLoop
    \/ Dispatch
    \/ InvokeStart
    \/ HandlerReturns
    \/ HandlerPanics
    \/ FinishPass
    \/ Register
    \/ Unregister

SpecReg == InitReg /\ [][NextReg]_vars

\* a response with two envelopes of one type, one after the other: the
\* membership events of the inviter and of the invited user
RepeatResponse ==
    InviteResponse(<< StateEv("m.room.member"), StateEv("m.room.member") >>)

InitRepeat ==
    /\ response = RepeatResponse
    /\ rooms = RoomIds(response)
    /\ registry = RegistryWith(0)
    /\ next_handle = 1
    /\ InitDispatcher

\* one pass over RepeatResponse with handlers registered and unregistered
\* at any moment
NextRepeat ==
    \/ SyncOnce
    \/ NextLoop
    \/ Dispatch
    \/ InvokeStart
    \/ HandlerReturns
    \/ HandlerPanics
    \/ FinishPass
    \/ Register
    \/ Unregister

SpecRepeat == InitRepeat /\ [][NextRepeat]_vars

\* the registry after a handler was registered for the receipts, for the
\* power levels and for the stripped membership events
ScenarioRegistry ==
    register(register(register(RegistryWith(0),
        Handler(1, "on_non_room_receipt", "room", "unit")),
        Handler(2, "on_state_power_levels", "room", "result")),
        Handler(3, "on_stripped_state_member", "none", "unit"))

\* a registry with handlers for three callbacks, and no pass
InitRegistry ==
    /\ response = ScenarioResponse
    /\ rooms = RoomIds(response)
    /\ registry = ScenarioRegistry
    /\ next_handle = Cardinality(LiveIds) + 1
    /\ InitDispatcher

NextRegistry ==
    \/ Register
    \/ Unregister

\* register and unregister calls on their own
SpecRegistry == InitRegistry /\ [][NextRegistry]_vars

\* the responses of syncs that follow one another
BatchResponses ==
    { ScenarioResponse, RepeatResponse,
      RoutingResponse(<< StateEv("m.room.member") >>, << Ev("m.room.redaction") >>) }

InitBatches ==
    /\ response \in BatchResponses
    /\ rooms = RoomIds(response)
    /\ \E n \in 0..MaxHandlers :
          /\ registry = RegistryWith(n)
          /\ next_handle = n * Len(TagSeq) + 1
    /\ InitDispatcher

\* the next client.sync_once(..) gets another response, once handle_sync
\* has returned for the one before, or has panicked; the rooms of the
\* response are added to the room store, which keeps the rooms it has
NextResponse ==
    /\ \/ pc = "idle" /\ todo = << >> /\ plan = PlanWith(skipped)
       \/ pc = "panicked"
    /\ pass < MaxPasses
    /\ response' \in BatchResponses \ { response }
    /\ rooms' = rooms \cup RoomIds(response')
    /\ UNCHANGED << registry, next_handle, reg_version, store_ops, pass,
                    suspended, cur, pc, todo, skipped, plan, cursor,
                    snapshot, running, calls, pass_version, hist, log,
                    failures, fault_at >>

NextBatches ==
    \/ Sync
    \/ NextLoop
    \/ Dispatch
    \/ InvokeStart
    \/ HandlerReturns
    \/ HandlerPanics
    \/ FinishPass
    \/ StoreChanges
    \/ NextResponse

\* syncs that follow one another, each with a response of its own, the
\* room store changing while a call is in progress
SpecBatches == InitBatches /\ [][NextBatches]_vars

\* the callbacks register is called for: the one whose event type has a
\* StaticEvent impl, and one of room events, one of events outside any
\* room and the one of the presence events, whose event types have none
ShapeTags ==
    { "on_stripped_state_member", "on_room_message",
      "on_non_room_push_rules", "on_presence_event" }

RegisterAnyShape == RegisterFor(ShapeTags)

NextShapes ==
    \/ RegisterAnyShape
    \/ Unregister

\* register calls for callbacks of the four kinds of event type, and
\* unregister calls
SpecShapes == InitReg /\ [][NextShapes]_vars

\* internal contexts of handle_event, as items: a room event and an event
\* outside any room, each with a room and without one
CtxItems(i) ==
    { Item("join", room, "timeline", i, Ev("m.room.message"),
           Route("on_room_message", NoDisc)) : room \in { NoRoom, 1 } }
    \cup
    { Item("account_data", room, "account_data", i, Ev("m.push_rules"),
           Route("on_non_room_push_rules", NoDisc)) : room \in { NoRoom, 1 } }

\* a pass that is about to hand two such contexts to the handlers
InitCtx ==
    /\ response = ScenarioResponse
    /\ rooms = RoomIds(response)
    /\ \E n \in 1..MaxHandlers :
          /\ registry = RegistryWith(n)
          /\ next_handle = n * Len(TagSeq) + 1
    /\ reg_version = 0
    /\ store_ops = 0
    /\ pass = 1
    /\ suspended = << >>
    /\ cur = 1
    /\ pc = "dispatch"
    /\ todo = << >>
    /\ skipped = {}
    /\ \E a \in CtxItems(1), b \in CtxItems(2) : plan = << a, b >>
    /\ cursor = StartCursor
    /\ snapshot = << >>
    /\ running = {}
    /\ calls = << >>
    /\ pass_version = 0
    /\ hist = << >>
    /\ log = << >>
    /\ failures = 0
    /\ fault_at = 0

\* the steps of a pass from where it is
NextCtx ==
    \/ Dispatch
    \/ InvokeStart
    \/ HandlerReturns
    \/ HandlerPanics
    \/ FinishPass

\* handle_event with internal contexts with and without a room
SpecCtx == InitCtx /\ [][NextCtx]_vars

\* the steps of such a pass when every handler future returns
NextCtxReturning ==
    \/ Dispatch
    \/ InvokeStart
    \/ HandlerReturns
    \/ FinishPass

\* the pass is polled until it returns, and every handler future it awaits
\* completes with a value
FairSpecCtx ==
    /\ InitCtx
    /\ [][NextCtxReturning]_vars
    /\ WF_vars(Dispatch)
    /\ WF_vars(InvokeStart)
    /\ WF_vars(HandlerReturns)
    /\ WF_vars(FinishPass)

\* two joined rooms with a name event in the state of each, and a
\* notification for the first room
TwoRoomsResponse ==
    [account_data |-> << >>,
     join |-> [k \in 1..2 |->
                 [room_id |-> k,
                  ephemeral |-> << >>,
                  account_data |-> << >>,
                  state |-> << StateEv("m.room.name") >>,
                  timeline |-> << >>]],
     leave |-> << >>,
     invite |-> << >>,
     presence |-> << >>,
     notifications |-> << RoomNotifications(1, 1) >>]

InitOverlap ==
    /\ response = TwoRoomsResponse
    /\ rooms \in RoomChoices(response)
    /\ \E n \in 1..MaxHandlers :
          /\ registry = RegistryWith(n)
          /\ next_handle = n * Len(TagSeq) + 1
    /\ InitDispatcher

\* handle_sync calls that are entered whenever the caller likes, also
\* while a call before has not returned, polled in any order
NextOverlap ==
    \/ StartPass
    \/ Switch
    \/ NextLoop
    \/ Dispatch
    \/ InvokeStart
    \/ HandlerReturns
    \/ HandlerPanics
    \/ FinishPass
    \/ StoreChanges

SpecOverlap == InitOverlap /\ [][NextOverlap]_vars

\* the responses of syncs that are made again: the end-to-end scenario,
\* the invite, and two joined rooms with a notification
TwiceResponses == { ScenarioResponse, InviteSync, TwoRoomsResponse }

InitTwice ==
    /\ response \in TwiceResponses
    /\ rooms \in RoomChoices(response)
    /\ \E n \in 0..MaxHandlers :
          /\ registry = RegistryWith(n)
          /\ next_handle = n * Len(TagSeq) + 1
    /\ InitDispatcher

\* syncs one after the other over one response, the room store changing
\* meanwhile
NextTwice ==
    \/ Sync
    \/ NextLoop
    \/ Dispatch
    \/ InvokeStart
    \/ HandlerReturns
    \/ HandlerPanics
    \/ FinishPass
    \/ StoreChanges

SpecTwice == InitTwice /\ [][NextTwice]_vars

----------------------------------------------------------------------------
(* Properties of the traversal order.                                      *)

PhaseRank(phase) ==
    CASE phase = "account_data" -> 1
      [] phase = "join" -> 2
      [] phase = "leave" -> 3
      [] phase = "invite" -> 4
      [] phase = "presence" -> 5
      [] phase = "notifications" -> 6

JoinedCollRank(coll) ==
    CASE coll = "ephemeral" -> 1
      [] coll = "room_account_data" -> 2
      [] coll = "state" -> 3
      [] coll = "timeline" -> 4

PhasesCalled == { calls[i].phase : i \in 1..Len(calls) }

PassFinished == pc = "idle" /\ pass >= 1

\* C1: in one pass the handler invocations come in the order global
\* account data, joined rooms, left rooms, invited rooms, presence; within
\* a phase they follow the response: rooms in map order and the envelopes
\* of a collection in the collection's order.
C1_PhaseOrder ==
    \A i, j \in 1..Len(calls) :
        (i < j /\ calls[i].phase # "notifications"
               /\ calls[j].phase # "notifications") =>
            /\ PhaseRank(calls[i].phase) <= PhaseRank(calls[j].phase)
            /\ calls[i].phase = calls[j].phase =>
                  /\ calls[i].room <= calls[j].room
                  /\ (calls[i].room = calls[j].room /\ calls[i].coll = calls[j].coll)
                        => calls[i].idx <= calls[j].idx

\* a finished pass that invoked handlers in all five phases, two of them
\* for different envelopes of the global account data
C1_Witness ==
    /\ PassFinished
    /\ {"account_data", "join", "leave", "invite", "presence"} \subseteq PhasesCalled
    /\ \E i, j \in 1..Len(calls) :
          /\ calls[i].phase = "account_data" /\ calls[j].phase = "account_data"
          /\ calls[i].idx < calls[j].idx

\* C2: the invocations for a joined room come in the order ephemeral, room
\* account data, state, timeline, each collection in its own order, and the
\* invocations of one joined room are over before those of the next begin.
C2_JoinedRoomOrder ==
    /\ \A i, j \in 1..Len(calls) :
          (i < j /\ calls[i].phase = "join" /\ calls[j].phase = "join") =>
              /\ calls[i].room <= calls[j].room
              /\ calls[i].room = calls[j].room =>
                    /\ JoinedCollRank(calls[i].coll) <= JoinedCollRank(calls[j].coll)
                    /\ calls[i].coll = calls[j].coll => calls[i].idx <= calls[j].idx
    /\ \A r \in running : r.call = Len(calls)

\* a finished pass with invocations for all four collections of one joined
\* room and invocations for a second joined room
C2_Witness ==
    /\ PassFinished
    /\ \E i \in 1..Len(calls) :
          /\ calls[i].phase = "join"
          /\ \A c \in {"ephemeral", "room_account_data", "state", "timeline"} :
                \E k \in 1..Len(calls) :
                    /\ calls[k].phase = "join"
                    /\ calls[k].room = calls[i].room
                    /\ calls[k].coll = c
          /\ \E k \in 1..Len(calls) :
                calls[k].phase = "join" /\ calls[k].room > calls[i].room

\* C3: in a pass at most one handler invocation is in progress, and it is
\* the one the pass started last: no handler of a pass is started while
\* another one of it has not completed.  This holds of every handle_sync
\* call, also of calls that run next to one another.
C3_OneAtATime ==
    /\ Cardinality(running) <= 1
    /\ \A r \in running : r.call = Len(calls)
    /\ \A i \in 1..Len(suspended) :
          /\ Cardinality(suspended[i].running) <= 1
          /\ \A r \in suspended[i].running :
                r.call = Len(suspended[i].calls)

\* a handler of a pass is in progress while a further handler of the same
\* envelope and further loops wait, and so is a handler of another pass,
\* which was entered second and has made an invocation already
C3_Witness ==
    /\ Cardinality(running) = 1
    /\ snapshot # << >>
    /\ todo # << >>
    /\ cur = 1
    /\ \E i \in 1..Len(suspended) :
          /\ suspended[i].pc = "dispatch"
          /\ suspended[i].running # {}
          /\ Len(suspended[i].calls) >= 2

\* C10: every notification invocation of a pass comes after every
\* invocation of the other phases, presence included.
C10_NotificationsLast ==
    \A i, j \in 1..Len(calls) :
        (i < j /\ calls[i].phase = "notifications") =>
            calls[j].phase = "notifications"

\* a finished pass with timeline, presence and notification invocations
C10_Witness ==
    /\ PassFinished
    /\ {"presence", "notifications"} \subseteq PhasesCalled
    /\ \E i \in 1..Len(calls) : calls[i].coll = "timeline"
    /\ Cardinality({ calls[i].room : i \in { k \in 1..Len(calls) :
                        calls[k].phase = "notifications" } }) >= 2

----------------------------------------------------------------------------
(* Properties of failure handling and of repeated passes.                  *)

IsPrefix(a, b) ==
    /\ Len(a) <= Len(b)
    /\ \A i \in 1..Len(a) : a[i] = b[i]

SameItem(c, d) ==
    /\ c.phase = d.phase
    /\ c.room = d.room
    /\ c.coll = d.coll
    /\ c.idx = d.idx

\* the invocations of a pass over items in which no handler fails or
\* panics: for every item in order, every handler of its callback in
\* registration order
ExpectedCallsFor(items) ==
    Flatten([k \in 1..Len(items) |->
        IF items[k].route.cb = NoCallback
        THEN << >>
        ELSE [m \in 1..Len(registry[items[k].route.cb]) |->
                Call(registry[items[k].route.cb][m], items[k],
                     BuildCtx(registry[items[k].route.cb][m].shape,
                              InternalEventHandlerCtx(items[k])))]])

\* those of the loops the pass has entered
ExpectedCalls == ExpectedCallsFor(plan)

RegistryUntouched == pass_version = reg_version

\* C5: a handler returning Err changes nothing about the invocations of
\* the pass: a finished pass has made exactly the invocations of a pass
\* without failures, in the same order; every Err is in the log exactly
\* once.
C5_FailureIsolated ==
    /\ (PassFinished /\ RegistryUntouched) => calls = ExpectedCalls
    /\ Len(log) = failures
    /\ \A a, b \in 1..Len(log) : a # b => log[a].error # log[b].error

\* a finished pass in which the first of two handlers of an envelope
\* returned Err and handlers of later envelopes were invoked
C5_Witness ==
    /\ PassFinished
    /\ pass = 1
    /\ Len(log) = 1
    /\ LET c == log[1].error.call
       IN  /\ c + 2 <= Len(calls)
           /\ SameItem(calls[c], calls[c + 1])
           /\ ~SameItem(calls[c], calls[Len(calls)])

\* C6: a handler that panics is caught at its invocation and the pass
\* goes on, so a pass never stops after a panic with handlers of the pass
\* left uninvoked.
C6_FaultCaught ==
    ~ /\ fault_at > 0
      /\ pc # "dispatch"
      /\ Len(calls) < Len(ExpectedCalls)

\* C9: two passes over the same response with the same registry and the
\* same answers of get_room make the same invocations in the same order.
C9_SameCallsTwice ==
    \A i, j \in 1..Len(hist) :
        ( /\ hist[i].started = hist[i].finished
          /\ hist[j].started = hist[j].finished
          /\ hist[i].started = hist[j].started
          /\ hist[i].skipped = hist[j].skipped ) =>
            hist[i].calls = hist[j].calls

\* two finished passes of several invocations each, one with a failure,
\* over a response with a room get_room answered None for both times
C9_Witness ==
    /\ Len(hist) = 2
    /\ Len(hist[1].calls) >= 4
    /\ failures = 1
    /\ hist[1].skipped = hist[2].skipped
    /\ hist[1].skipped # {}

\* the callbacks of a pass, one per envelope
RECURSIVE EnvelopeTags(_)
EnvelopeTags(cs) ==
    IF cs = << >> THEN << >>
    ELSE IF Len(cs) >= 2 /\ SameItem(cs[Len(cs) - 1], cs[Len(cs)])
         THEN EnvelopeTags(SubSeq(cs, 1, Len(cs) - 1))
         ELSE Append(EnvelopeTags(SubSeq(cs, 1, Len(cs) - 1)), cs[Len(cs)].tag)

\* C8: the response with an unrecognized global account-data event, a
\* receipt, a power-levels state event, a message and a presence event is
\* dispatched as custom, receipt, power levels, message, presence.
C8_ScenarioOrder ==
    ( /\ response = ScenarioResponse
      /\ skipped = {}
      /\ PassFinished
      /\ \A t \in Tags : registry[t] # << >> ) =>
        EnvelopeTags(calls) =
            << "on_custom_event", "on_non_room_receipt", "on_state_power_levels",
               "on_room_message", "on_presence_event" >>

CalledFor(cs, k) ==
    LET of_k == SelectSeq(cs, LAMBDA c : SameItem(c, plan[k]))
    IN  [i \in 1..Len(of_k) |-> of_k[i].handler]

Ids(hs) == [i \in 1..Len(hs) |-> hs[i].id]

\* C4: the N handlers registered for a tag are invoked for a matching
\* envelope once each in registration order; when one handler has been
\* unregistered between two passes, the second pass makes the invocations
\* of the first without those of that handler, in the same order.
C4_RegistrationOrder ==
    /\ (PassFinished /\ RegistryUntouched) =>
          \A k \in 1..Len(plan) :
              plan[k].route.cb # NoCallback =>
                  CalledFor(calls, k) = Ids(registry[plan[k].route.cb])
    /\ \A t \in Tags : \A a, b \in 1..Len(registry[t]) :
          a < b => registry[t][a].id < registry[t][b].id
    /\ \A i, j \in 1..Len(hist) :
          ( /\ j = i + 1
            /\ hist[i].started = hist[i].finished
            /\ hist[j].started = hist[j].finished
            /\ \E k \in hist[i].ids : hist[j].ids = hist[i].ids \ {k} ) =>
              hist[j].calls =
                  SelectSeq(hist[i].calls, LAMBDA c : c.handler \in hist[j].ids)

\* a pass that invoked three handlers of one tag for an envelope, and a
\* second pass, after the second of them was unregistered, that invoked
\* the other two
C4_Witness ==
    /\ Len(hist) = 2
    /\ hist[1].started = hist[1].finished
    /\ hist[2].started = hist[2].finished
    /\ \E k \in 1..Len(plan) :
          /\ Len(CalledFor(hist[1].calls, k)) = 3
          /\ Len(CalledFor(hist[2].calls, k)) = 2
          /\ hist[2].ids = hist[1].ids \ { CalledFor(hist[1].calls, k)[2] }

----------------------------------------------------------------------------
(* Properties of the room buckets and of the routing.                      *)

EphemeralTags ==
    { "on_non_room_typing", "on_non_room_receipt" }

StrippedStateTags ==
    { "on_stripped_state_member", "on_stripped_state_name",
      "on_stripped_state_canonical_alias", "on_stripped_state_aliases",
      "on_stripped_state_avatar", "on_stripped_state_power_levels",
      "on_stripped_state_join_rules" }

LeftCollRank(coll) ==
    CASE coll = "room_account_data" -> 1
      [] coll = "state" -> 2
      [] coll = "timeline" -> 3
      [] OTHER -> 0

\* C11: the invocations for a left room come in the order room account
\* data, state, timeline, each collection in its own order, and no
\* ephemeral handler is invoked for a left room.
C11_LeftRoomOrder ==
    /\ \A i \in 1..Len(calls) :
          calls[i].phase = "leave" =>
              /\ calls[i].coll \in { "room_account_data", "state", "timeline" }
              /\ calls[i].tag \notin EphemeralTags
    /\ \A i, j \in 1..Len(calls) :
          ( /\ i < j
            /\ calls[i].phase = "leave" /\ calls[j].phase = "leave"
            /\ calls[i].room = calls[j].room ) =>
              /\ LeftCollRank(calls[i].coll) <= LeftCollRank(calls[j].coll)
              /\ calls[i].coll = calls[j].coll => calls[i].idx <= calls[j].idx

\* a finished pass with invocations for all three collections of one left
\* room, while handlers for the ephemeral events are registered
C11_Witness ==
    /\ PassFinished
    /\ \A t \in EphemeralTags : registry[t] # << >>
    /\ \E a, b, c \in 1..Len(calls) :
          /\ calls[a].phase = "leave" /\ calls[a].coll = "room_account_data"
          /\ calls[b].phase = "leave" /\ calls[b].coll = "state"
          /\ calls[c].phase = "leave" /\ calls[c].coll = "timeline"
          /\ calls[a].room = calls[b].room /\ calls[b].room = calls[c].room

\* C12: for an invited room only the stripped state is dispatched, to the
\* stripped-state handlers, and the stripped-state handlers are invoked
\* for invited rooms only.
C12_InviteStrippedOnly ==
    \A i \in 1..Len(calls) :
        /\ calls[i].phase = "invite" =>
              /\ calls[i].coll = "invite_state"
              /\ calls[i].tag \in StrippedStateTags
        /\ calls[i].tag \in StrippedStateTags =>
              /\ calls[i].phase = "invite"
              /\ calls[i].room \in
                    { response.invite[k].room_id : k \in 1..Len(response.invite) }

\* a finished pass with a stripped-state invocation for an invited room
\* and invocations for a joined room, with every handler registered
C12_Witness ==
    /\ PassFinished
    /\ \A t \in Tags : registry[t] # << >>
    /\ \E a, b \in 1..Len(calls) :
          /\ calls[a].phase = "invite"
          /\ calls[b].phase = "join" /\ calls[b].coll = "state"

\* every envelope of the response in the order of the loops of
\* handle_sync, those of rooms that do not resolve included
AllItems ==
    AccountDataItems(response.account_data)
    \o Flatten([k \in 1..Len(response.join) |->
          EphemeralItems("join", response.join[k].room_id, response.join[k].ephemeral)
          \o RoomAccountDataItems("join", response.join[k].room_id,
                                  response.join[k].account_data)
          \o StateItems("join", response.join[k].room_id, response.join[k].state)
          \o TimelineItems("join", response.join[k].room_id, response.join[k].timeline)])
    \o Flatten([k \in 1..Len(response.leave) |->
          RoomAccountDataItems("leave", response.leave[k].room_id,
                               response.leave[k].account_data)
          \o StateItems("leave", response.leave[k].room_id, response.leave[k].state)
          \o TimelineItems("leave", response.leave[k].room_id,
                           response.leave[k].timeline)])
    \o Flatten([k \in 1..Len(response.invite) |->
          StrippedStateItems("invite", response.invite[k].room_id,
                             response.invite[k].invite_state)])
    \o PresenceItems(response.presence)
    \o Flatten([k \in 1..Len(response.notifications) |->
          NotificationItems(response.notifications[k].room_id,
                            response.notifications[k].events)])

\* an envelope some registered handler is to be invoked for
HasHandlers(item) ==
    /\ item.route.cb # NoCallback
    /\ registry[item.route.cb] # << >>

Dispatched(item) == \E i \in 1..Len(calls) : SameItem(calls[i], item)

ItemIndex(items, c) == CHOOSE k \in 1..Len(items) : SameItem(c, items[k])

\* the loop of handle_sync an item or an invocation belongs to
LoopOf(x) == [phase |-> x.phase, room |-> x.room]

\* C13: the body of the loop for a room is entered when get_room answers
\* Some at the moment the loop gets to the room and passed over when it
\* answers None; no handler is invoked for an envelope of a loop that was
\* passed over, no handler gets a context without a room where it asked
\* for one, and the envelopes of the other loops are dispatched in the
\* order of the response.
C13_UnresolvedRoomSkipped ==
    /\ [](LET items == AllItems
              at == [i \in 1..Len(calls) |-> ItemIndex(items, calls[i])]
          IN  /\ \A i \in 1..Len(calls) :
                    /\ LoopOf(calls[i]) \notin skipped
                    /\ calls[i].tag \in RoomTags => calls[i].room # NoRoom
                    /\ calls[i].ctx.shape = "room" =>
                          calls[i].ctx.ok /\ calls[i].ctx.room = calls[i].room
              /\ \A i \in 1..(Len(calls) - 1) : at[i] <= at[i + 1]
              /\ (PassFinished /\ RegistryUntouched) =>
                    \A k \in 1..Len(items) :
                        ( /\ LoopOf(items[k]) \notin skipped
                          /\ HasHandlers(items[k]) ) => Dispatched(items[k]))
    /\ [][ (todo # << >> /\ todo' = Tail(todo)) =>
               IF Head(todo).room = NoRoom \/ Head(todo).room \in rooms
               THEN /\ plan' = plan \o Head(todo).items
                    /\ skipped' = skipped
               ELSE /\ plan' = plan
                    /\ skipped' = skipped \cup { LoopOf(Head(todo)) } ]_vars

\* a finished pass over a response with a room that did not resolve and
\* has envelopes with handlers, with invocations for another room before
\* and for presence after, and with a room that resolved for its state and
\* timeline and, the store having changed, not for its notifications
C13_Witness ==
    /\ PassFinished
    /\ LET items == AllItems
       IN  \E k \in 1..Len(items) :
              /\ items[k].room # NoRoom
              /\ LoopOf(items[k]) \in skipped
              /\ HasHandlers(items[k])
              /\ \E a, b \in 1..Len(calls) :
                    /\ calls[a].room # NoRoom
                    /\ ItemIndex(items, calls[a]) < k
                    /\ calls[b].phase = "presence"
                    /\ ItemIndex(items, calls[b]) > k
    /\ \E a \in 1..Len(calls) :
          /\ calls[a].phase = "join"
          /\ [phase |-> "notifications", room |-> calls[a].room] \in skipped

\* the state event types with a callback of their own
DedicatedStateTypes ==
    { "m.room.member", "m.room.name", "m.room.canonical_alias",
      "m.room.aliases", "m.room.avatar", "m.room.power_levels",
      "m.room.join_rules", "m.room.tombstone" }

\* the callbacks of the state collection and of the timeline for them
DedicatedStateTags ==
    { "on_state_member", "on_state_name", "on_state_canonical_alias",
      "on_state_aliases", "on_state_avatar", "on_state_power_levels",
      "on_state_join_rules", "on_room_tombstone",
      "on_room_member", "on_room_name", "on_room_canonical_alias",
      "on_room_aliases", "on_room_avatar", "on_room_power_levels",
      "on_room_join_rules" }

\* the invocation is for a state event: one of a state collection or a
\* timeline event with a state key
ForStateEvent(c) ==
    \/ c.coll = "state"
    \/ c.coll = "timeline" /\ c.ctx.raw.state_key

\* C14: for a state event of type member, name, aliases, avatar, power
\* levels, join rules, canonical alias or tombstone only the handlers of
\* the callback of that type are invoked, never those of on_custom_event.
C14_DedicatedNotCustom ==
    \A i \in 1..Len(calls) :
        (ForStateEvent(calls[i]) /\ calls[i].ctx.raw.type \in DedicatedStateTypes) =>
            /\ calls[i].tag # "on_custom_event"
            /\ calls[i].disc = NoDisc
            /\ calls[i].tag \in DedicatedStateTags
            /\ \E m \in 1..Len(registry[calls[i].tag]) :
                  registry[calls[i].tag][m].id = calls[i].handler

\* a finished pass with an invocation for a power-levels (or member) event
\* of a state collection and one for a custom state event, while handlers
\* for on_custom_event are registered
C14_Witness ==
    /\ PassFinished
    /\ registry["on_custom_event"] # << >>
    /\ \E a, b \in 1..Len(calls) :
          /\ calls[a].coll = "state"
          /\ calls[a].ctx.raw.type \in DedicatedStateTypes
          /\ calls[b].coll = "state"
          /\ calls[b].tag = "on_custom_event"

\* the message event types with a callback of their own
DedicatedMessageTypes ==
    { "m.room.message", "m.room.message.feedback", "m.room.redaction",
      "m.reaction", "m.call.invite", "m.call.answer", "m.call.candidates",
      "m.call.hangup" }

\* the event has a type AnySyncStateEvent (for an event with a state key)
\* or AnySyncMessageEvent (for one without) has a variant for
KnownType(e) ==
    IF e.state_key
    THEN e.type \in DedicatedStateTypes \cup IgnoredStateTypes
    ELSE e.type \in DedicatedMessageTypes \cup IgnoredMessageTypes

\* a timeline envelope that deserializes, is not redacted and has a type
\* without a variant
UnknownTimelineItem(item) ==
    /\ item.coll = "timeline"
    /\ item.decoded
    /\ ~item.ev.redacted
    /\ ~KnownType(item.ev)

\* C15: for a timeline envelope of an unknown type exactly the
\* handlers of on_custom_event are invoked, each with the raw envelope and
\* the discriminator "message", also when the envelope is a state event.
C15_UnknownTimelineIsMessage ==
    /\ \A i \in 1..Len(calls) :
          UnknownTimelineItem(plan[ItemIndex(plan, calls[i])]) =>
              /\ calls[i].tag = "on_custom_event"
              /\ calls[i].ctx.raw = plan[ItemIndex(plan, calls[i])].ev
              /\ calls[i].disc = "message"
    /\ (PassFinished /\ RegistryUntouched) =>
          \A k \in 1..Len(plan) :
              UnknownTimelineItem(plan[k]) =>
                  CalledFor(calls, k) = Ids(registry["on_custom_event"])

\* an envelope of a state collection or a timeline that deserializes and
\* is not redacted
RoomEventItem(item) ==
    /\ item.coll \in { "state", "timeline" }
    /\ item.decoded
    /\ ~item.ev.redacted

\* the event has a type with a callback of its own
DedicatedType(e) ==
    IF e.state_key
    THEN e.type \in DedicatedStateTypes
    ELSE e.type \in DedicatedMessageTypes

\* C16, as claimed: every state or timeline envelope of a type without a
\* callback of its own goes to the handlers of on_custom_event with a
\* discriminator; none is dropped without an invocation.
C16_NeverDropped ==
    ( /\ PassFinished
      /\ RegistryUntouched
      /\ registry["on_custom_event"] # << >> ) =>
        \A k \in 1..Len(plan) :
            (RoomEventItem(plan[k]) /\ ~DedicatedType(plan[k].ev)) =>
                /\ plan[k].route.cb = "on_custom_event"
                /\ plan[k].route.disc \in { "state", "message" }
                /\ CalledFor(calls, k) # << >>

\* C16, amended: a state or timeline envelope of a type the deserializer
\* has no variant for goes to the handlers of on_custom_event, a state
\* event with the discriminator "state" and a message event with
\* "message" (a state event of a timeline gets "state" too, which is what
\* C15 reports); one of a type that has a variant and no callback
\* (m.room.topic, m.room.create, m.sticker, ...) gets no invocation.
C16_UnknownToCustom ==
    \A k \in 1..Len(plan) :
        RoomEventItem(plan[k]) =>
            /\ ~KnownType(plan[k].ev) =>
                  /\ plan[k].route =
                        Route("on_custom_event",
                              IF plan[k].ev.state_key THEN "state" ELSE "message")
                  /\ (PassFinished /\ RegistryUntouched) =>
                        CalledFor(calls, k) = Ids(registry["on_custom_event"])
            /\ (KnownType(plan[k].ev) /\ ~DedicatedType(plan[k].ev)) =>
                  /\ plan[k].route = NoRoute
                  /\ CalledFor(calls, k) = << >>

\* a finished pass over a state collection with an m.room.topic event, for
\* which nothing was invoked, and an event of an unknown type, for which a
\* handler of on_custom_event was
C16_Witness ==
    /\ PassFinished
    /\ registry["on_custom_event"] # << >>
    /\ \E a, b \in 1..Len(plan) :
          /\ plan[a].coll = "state" /\ plan[b].coll = "state"
          /\ plan[a].ev.type = "m.room.topic"
          /\ CalledFor(calls, a) = << >>
          /\ ~KnownType(plan[b].ev)
          /\ CalledFor(calls, b) # << >>

\* C17: a redacted envelope causes no invocation, of a callback of its
\* type or of on_custom_event, and every other envelope with handlers is
\* dispatched all the same.
C17_RedactedNotDispatched ==
    /\ \A i \in 1..Len(calls) : ~calls[i].ctx.raw.redacted
    /\ \A k \in 1..Len(plan) :
          /\ plan[k].ev.redacted => CalledFor(calls, k) = << >>
          /\ ( /\ PassFinished /\ RegistryUntouched
               /\ ~plan[k].ev.redacted
               /\ HasHandlers(plan[k]) ) => CalledFor(calls, k) # << >>

\* C18: an envelope that does not deserialize is passed over: no handler
\* is invoked for it, and the handlers of every other envelope are
\* invoked, in the order of the response.  The envelopes are those of the
\* collections handle_sync deserializes; a notification is no such
\* envelope, it is handed on as it came.
C18_MalformedSkipped ==
    LET at == [i \in 1..Len(calls) |-> ItemIndex(plan, calls[i])]
    IN  /\ \A i \in 1..Len(calls) :
              /\ plan[at[i]].decoded
              /\ calls[i].coll # "notifications" => calls[i].ctx.raw.valid
        /\ \A i \in 1..(Len(calls) - 1) : at[i] <= at[i + 1]
        /\ (PassFinished /\ RegistryUntouched) =>
              \A k \in 1..Len(plan) :
                  (plan[k].decoded /\ HasHandlers(plan[k])) =>
                      \E i \in 1..Len(calls) : at[i] = k

\* a finished pass over a collection with an envelope that does not
\* deserialize followed by one a handler was invoked for, with invocations
\* for an earlier and for a later collection
C18_Witness ==
    /\ PassFinished
    /\ \E k \in 2..(Len(plan) - 2) :
          /\ ~plan[k].decoded
          /\ plan[k + 1].coll = plan[k].coll
          /\ plan[k + 1].room = plan[k].room
          /\ CalledFor(calls, k + 1) # << >>
          /\ \E a \in 1..(k - 1) : CalledFor(calls, a) # << >>
          /\ \E b \in (k + 2)..Len(plan) : CalledFor(calls, b) # << >>

\* the callbacks of handle_state_event for the events of a state
\* collection
StateCategoryTags ==
    { "on_state_member", "on_state_name", "on_state_canonical_alias",
      "on_state_aliases", "on_state_avatar", "on_state_power_levels",
      "on_state_join_rules" }

\* the callbacks of handle_timeline_event for the state events of a
\* timeline
TimelineCategoryTags ==
    { "on_room_member", "on_room_name", "on_room_canonical_alias",
      "on_room_aliases", "on_room_avatar", "on_room_power_levels",
      "on_room_tombstone", "on_room_join_rules" }

\* C30: a state event of a type with a callback of its own invokes the
\* handlers of the state callback when it is in a state collection and
\* those of the timeline callback when it is in a timeline, and never
\* those of the other collection.
C30_CategoryByCollection ==
    \A i \in 1..Len(calls) :
        ( /\ calls[i].ctx.raw.type \in DedicatedStateTypes
          /\ calls[i].ctx.raw.state_key ) =>
            /\ calls[i].coll = "state" =>
                  /\ calls[i].tag \in StateCategoryTags
                  /\ calls[i].tag \notin TimelineCategoryTags
            /\ calls[i].coll = "timeline" =>
                  /\ calls[i].tag \in TimelineCategoryTags
                  /\ calls[i].tag \notin StateCategoryTags

----------------------------------------------------------------------------
(* Properties of the registry snapshots.                                   *)

\* C19: dispatching an envelope whose tag has no handlers invokes no
\* handler, builds no context and leaves the registry, the log and the
\* invocations of the pass as they are.
C19_EmptySnapshotNoEffect ==
    /\ [](RegistryUntouched =>
            \A k \in 1..Len(plan) :
                ~HasHandlers(plan[k]) => CalledFor(calls, k) = << >>)
    /\ [](\A i \in 1..Len(log) :
            log[i].error.pass = cur =>
                /\ log[i].error.call \in 1..Len(calls)
                /\ calls[log[i].error.call].handler = log[i].error.handler)
    /\ [][ ( /\ cursor' = cursor + 1
             /\ plan' = plan
             /\ ~HasHandlers(plan[cursor']) ) =>
               /\ snapshot' = << >>
               /\ calls' = calls
               /\ log' = log
               /\ registry' = registry
               /\ running' = running
               /\ pc' = pc ]_vars

\* a finished pass that went over envelopes of tags without handlers
\* before and after an envelope with two handlers, both invoked
C19_Witness ==
    /\ PassFinished
    /\ RegistryUntouched
    /\ Len(calls) = 2
    /\ \E a, b, c \in 1..Len(plan) :
          /\ a < b /\ b < c
          /\ plan[a].route.cb # NoCallback /\ ~HasHandlers(plan[a])
          /\ Len(CalledFor(calls, b)) = 2
          /\ plan[c].route.cb # NoCallback /\ ~HasHandlers(plan[c])

\* C20: whatever register and unregister calls run alongside a pass, the
\* snapshot taken for an envelope is the whole list of its tag at that
\* moment, a later change of the registry does not reach it, and the
\* handlers invoked for the envelope are those of the snapshot, in order.
C20_SnapshotConsistent ==
    /\ [][ ( /\ cursor' = cursor + 1
             /\ plan' = plan
             /\ plan[cursor'].route.cb # NoCallback ) =>
               /\ snapshot' = registry[plan[cursor'].route.cb]
               /\ registry' = registry ]_vars
    /\ [][ registry' # registry =>
               /\ snapshot' = snapshot
               /\ calls' = calls
               /\ running' = running
               /\ cursor' = cursor ]_vars
    /\ [][ (snapshot' # snapshot /\ cursor' = cursor /\ pc = "dispatch") =>
               /\ snapshot # << >>
               /\ snapshot' = Tail(snapshot)
               /\ calls' = Append(calls, calls'[Len(calls')])
               /\ calls'[Len(calls')].handler = Head(snapshot).id ]_vars

\* a pass is between two handlers of an envelope while the list of the
\* envelope's tag is no longer the one the snapshot was taken from: a
\* handler of it was unregistered and another one registered
C20_Witness ==
    /\ pc = "dispatch"
    /\ cursor > 0
    /\ snapshot # << >>
    /\ CalledFor(calls, cursor) # << >>
    /\ plan[cursor].route.cb # NoCallback
    /\ \E h \in 1..Len(snapshot) : snapshot[h].id \notin LiveIds
    /\ \E m \in 1..Len(registry[plan[cursor].route.cb]) :
          /\ registry[plan[cursor].route.cb][m].id \notin
                { snapshot[h].id : h \in 1..Len(snapshot) }
          /\ \A i \in 1..Len(calls) :
                calls[i].handler # registry[plan[cursor].route.cb][m].id

\* the handlers of the envelope the pass is at: those invoked for it so
\* far, then those of its snapshot still to invoke
Taken == CalledFor(calls, cursor) \o Ids(snapshot)

\* C21: the handlers of an envelope are those of one lookup, made when the
\* pass reaches the envelope: while the pass is at envelope i no register
\* or unregister call changes the handlers invoked or still to invoke for
\* i, the pass leaves i when all of them were invoked, and the lookup for
\* the next envelope gives the list of its tag as it is then, with every
\* change made while the pass was at i.
C21_SnapshotPerEnvelope ==
    /\ [][ (pc = "dispatch" /\ cursor > 0 /\ cursor' = cursor) =>
               Taken' = Taken ]_vars
    /\ [][ (cursor' = cursor + 1 /\ plan' = plan) =>
               /\ snapshot = << >>
               /\ Taken' = IF plan[cursor'].route.cb = NoCallback
                           THEN << >>
                           ELSE Ids(registry[plan[cursor'].route.cb]) ]_vars

\* a finished pass over two envelopes of one tag, one right after the
\* other: a handler registered while the pass was at the first was invoked
\* for the second alone, and one unregistered meanwhile for the first alone
C21_Witness ==
    /\ PassFinished
    /\ fault_at = 0
    /\ \E k \in 1..(Len(plan) - 1) :
          /\ plan[k].route.cb # NoCallback
          /\ plan[k + 1].route.cb = plan[k].route.cb
          /\ LET first == CalledFor(calls, k)
                 second == CalledFor(calls, k + 1)
                 ids(q) == { q[i] : i \in 1..Len(q) }
             IN  /\ ids(second) \ ids(first) # {}
                 /\ ids(first) \ ids(second) # {}

----------------------------------------------------------------------------
(* Properties of register and unregister.                                  *)

RemoveAt(q, i) == SubSeq(q, 1, i - 1) \o SubSeq(q, i + 1, Len(q))

\* C22: unregister(handle) takes the one entry of the handle out of the
\* list it is in and leaves every other entry of every tag where it is;
\* for a handle whose entry is gone it changes nothing, also after further
\* handlers were registered for the tag.
C22_UnregisterExactlyOne ==
    LET live == LiveIds
    IN  \A handle \in 1..(next_handle - 1) :
            LET after == unregister(registry, handle)
            IN  /\ handle \in live =>
                      \E t \in Tags : \E i \in 1..Len(registry[t]) :
                          /\ registry[t][i].id = handle
                          /\ after = [registry EXCEPT ![t] = RemoveAt(@, i)]
                /\ handle \notin live => after = registry
                /\ unregister(after, handle) = after
                /\ \A tag \in RegTags :
                      LET later == register(after,
                                      Handler(next_handle, tag, "none", "unit"))
                      IN  unregister(later, handle) = later

\* the second of three handlers of a tag was unregistered and two further
\* handlers were registered for the tag afterwards, while other tags have
\* handlers
C22_Witness ==
    \E tag \in RegTags :
        /\ Len(registry[tag]) = 3
        /\ \E handle \in 1..(next_handle - 1) :
              /\ handle \notin LiveIds
              /\ registry[tag][1].id < handle
              /\ registry[tag][2].id > handle
        /\ \E t \in Tags \ {tag} : registry[t] # << >>

\* C25: an entry of the registry is one of a callback whose event type
\* has a static type tag; one with a room context is one of a callback of
\* room events, and one with a global context is one of a callback of
\* events outside any room: no register call adds an entry of another
\* kind, and every register call that adds an entry adds one entry.
C25_ShapeValidated ==
    /\ [](\A t \in Tags : \A i \in 1..Len(registry[t]) :
            /\ registry[t][i].tag = t
            /\ t \in StaticEventTags
            /\ registry[t][i].shape \in Shapes
            /\ registry[t][i].shape = "room" => t \in RoomTags
            /\ registry[t][i].shape = "global" => t \in NonRoomTags)
    /\ [][ next_handle' # next_handle =>
               \E t \in Tags :
                   /\ Len(registry'[t]) = Len(registry[t]) + 1
                   /\ registry' = [registry EXCEPT
                                     ![t] = Append(@, registry'[t][Len(registry'[t])])]
                   /\ registry'[t][Len(registry'[t])].id = next_handle ]_vars

\* handlers with a room context and without a context are registered for
\* the stripped membership events, after one of them was unregistered
C25_Witness ==
    /\ \E i \in 1..Len(registry["on_stripped_state_member"]) :
          registry["on_stripped_state_member"][i].shape = "room"
    /\ \E i \in 1..Len(registry["on_stripped_state_member"]) :
          registry["on_stripped_state_member"][i].shape = "none"
    /\ \E handle \in 1..(next_handle - 1) : handle \notin LiveIds

\* the EVENT_TYPE of a handler is the EVENT_TYPE of the event type it
\* declares, in each of the three EventHandler impls
EventTypeOfDeclared ==
    \A t \in Tags, sh \in Shapes :
        EventHandler_EVENT_TYPE(t, sh) = StaticEvent_EVENT_TYPE(t)

\* C26: the EVENT_TYPE of a handler is the EVENT_TYPE of the event type it
\* declares, whichever of the three contexts it takes; a registered
\* handler is one for an event type that has an EVENT_TYPE, and it is in
\* the list of the callback of that event type; a handler is invoked only
\* for envelopes whose type is its EVENT_TYPE, routed to the callback it is
\* registered under: as long as it is registered, it is in the list of
\* that callback, with the context it was invoked with.
C26_TagMatches ==
    /\ EventTypeOfDeclared
    /\ \A t \in Tags : \A i \in 1..Len(registry[t]) :
          /\ registry[t][i].tag = t
          /\ EventHandler_EVENT_TYPE(t, registry[t][i].shape) # NoEventType
          /\ \A j \in 1..Len(calls) :
                calls[j].handler = registry[t][i].id =>
                    /\ calls[j].tag = t
                    /\ calls[j].ctx.shape = registry[t][i].shape
    /\ \A j \in 1..Len(calls) :
          LET item == plan[ItemIndex(plan, calls[j])]
          IN  /\ item.route.cb = calls[j].tag
              /\ item.ev.type =
                    EventHandler_EVENT_TYPE(calls[j].tag, calls[j].ctx.shape)

\* a finished pass over the invite in which a handler with a room context
\* and one without a context, both registered for the stripped membership
\* events, were invoked for the m.room.member envelope, and no handler for
\* the m.room.name envelope before it
C26_Witness ==
    /\ PassFinished
    /\ Len(plan) >= 2
    /\ plan[1].ev.type = "m.room.name"
    /\ \A sh \in { "room", "none" } :
          \E i \in 1..Len(calls) :
              /\ calls[i].ctx.shape = sh
              /\ calls[i].tag = "on_stripped_state_member"
              /\ plan[ItemIndex(plan, calls[i])].ev.type = "m.room.member"
    /\ \A i \in 1..Len(calls) : ~ SameItem(calls[i], plan[1])

----------------------------------------------------------------------------
(* Properties of the handler results and of the contexts.                  *)

\* C27: when a handler returns, () and Ok(()) write nothing to the log and
\* Err(e) writes one entry, with the event type tag of the handler and the
\* error; the handler of an entry is one that returns a Result; whatever
\* is returned, the registry and the position of the pass stay as they
\* are and the pass goes on.
C27_OutcomeNormalized ==
    /\ [](\A t \in Tags :
            /\ print_error("unit", t, "e") = << >>
            /\ print_error("ok", t, "e") = << >>
            /\ print_error("err", t, "e") = << [event_type |-> t, error |-> "e"] >>)
    /\ [][ (running' # running /\ calls' = calls /\ fault_at' = fault_at) =>
               \E r \in running :
                   /\ running' = running \ {r}
                   /\ failures' = failures => log' = log
                   /\ failures' # failures =>
                         /\ failures' = failures + 1
                         /\ r.h.ret = "result"
                         /\ log' = Append(log,
                               [event_type |-> r.h.tag,
                                error |-> [handler |-> r.h.id, call |-> r.call,
                                           pass |-> cur]])
                   /\ registry' = registry
                   /\ pc' = pc /\ pc = "dispatch"
                   /\ plan' = plan
                   /\ cursor' = cursor
                   /\ snapshot' = snapshot ]_vars
    /\ [][ log' # log => failures' = failures + 1 ]_vars

\* a finished first pass in which one handler returned Err, another
\* handler with a Result returned Ok and one without returned (), with one
\* entry in the log, for the tag of the handler that failed
C27_Witness ==
    /\ PassFinished
    /\ pass = 1
    /\ Len(log) = 1
    /\ log[1].event_type = calls[log[1].error.call].tag
    /\ \E i, j \in 1..Len(calls) :
          /\ i # log[1].error.call
          /\ \E m \in 1..Len(registry[calls[i].tag]) :
                /\ registry[calls[i].tag][m].id = calls[i].handler
                /\ registry[calls[i].tag][m].ret = "result"
          /\ \E m \in 1..Len(registry[calls[j].tag]) :
                /\ registry[calls[j].tag][m].id = calls[j].handler
                /\ registry[calls[j].tag][m].ret = "unit"

\* the handle_event step for a handler taking the context of shape sh
Converts(sh) ==
    /\ pc = "dispatch"
    /\ running = {}
    /\ snapshot # << >>
    /\ Head(snapshot).shape = sh

\* C28: a room context built from an internal context without a room is
\* a panic: no handler future is created and the pass is over; built from
\* an internal context with a room it has the client, the room and the raw
\* event of the internal context.
C28_RoomCtxFailsFast ==
    /\ [](\A i \in 1..Len(calls) :
            calls[i].ctx.shape = "room" =>
                /\ calls[i].ctx.ok
                /\ calls[i].ctx.room # NoRoom
                /\ calls[i].ctx =
                      [ok |-> TRUE, shape |-> "room", client |-> "client",
                       raw |-> plan[ItemIndex(plan, calls[i])].ev,
                       room |-> plan[ItemIndex(plan, calls[i])].room])
    /\ [][ (Converts("room") /\ (snapshot' # snapshot \/ pc' # pc)) =>
               IF plan[cursor].room = NoRoom
               THEN /\ pc' = "panicked"
                    /\ calls' = calls
                    /\ running' = {}
               ELSE /\ pc' = pc
                    /\ Len(calls') = Len(calls) + 1
                    /\ calls'[Len(calls')].ctx.room = plan[cursor].room
                    /\ Cardinality(running') = 1 ]_vars

\* the pass ended in a panic where a handler asked for a room context and
\* the internal context had no room, after a handler got a room context
\* with the room of its internal context
C28_Witness ==
    /\ pc = "panicked"
    /\ fault_at = 0
    /\ snapshot # << >>
    /\ Head(snapshot).shape = "room"
    /\ plan[cursor].room = NoRoom
    /\ \E i \in 1..Len(calls) :
          calls[i].ctx.shape = "room" /\ calls[i].ctx.room = 1

\* C29: a global context is built from every internal context, with a
\* room or without: it has the client and the raw event of the internal
\* context and no room.
C29_GlobalCtxNoRoom ==
    /\ [](\A i \in 1..Len(calls) :
            calls[i].ctx.shape = "global" =>
                calls[i].ctx =
                    [ok |-> TRUE, shape |-> "global", client |-> "client",
                     raw |-> plan[ItemIndex(plan, calls[i])].ev,
                     room |-> NoRoom])
    /\ [][ (Converts("global") /\ (snapshot' # snapshot \/ pc' # pc)) =>
               /\ pc' = pc
               /\ snapshot' = Tail(snapshot)
               /\ Len(calls') = Len(calls) + 1
               /\ calls'[Len(calls')].handler = Head(snapshot).id
               /\ Cardinality(running') = 1 ]_vars

\* handlers got a global context for an event that came with a room and
\* for one that came without
C29_Witness ==
    \E i, j \in 1..Len(calls) :
        /\ calls[i].ctx.shape = "global" /\ calls[i].room # NoRoom
        /\ calls[j].ctx.shape = "global" /\ calls[j].room = NoRoom

----------------------------------------------------------------------------
(* Properties of redelivery and of passes one after the other.             *)

\* no handler occurs twice for one envelope in the invocations cs
OncePerEnvelope(cs) ==
    \A i, j \in 1..Len(cs) :
        (i < j /\ SameItem(cs[i], cs[j])) => cs[i].handler # cs[j].handler

\* C23: in a pass a handler is invoked at most once for an envelope; after
\* an invocation returned Err the handler is not invoked for that envelope
\* again in the pass, after a panic nothing is invoked any more, and a
\* later pass makes the invocations of its own response, once each,
\* whatever failed in the pass before.
C23_NoRedelivery ==
    /\ OncePerEnvelope(calls)
    /\ \A a \in 1..Len(log) :
          log[a].error.pass = cur =>
              \A j \in 1..Len(calls) :
                  ( /\ j # log[a].error.call
                    /\ SameItem(calls[j], calls[log[a].error.call]) ) =>
                      calls[j].handler # log[a].error.handler
    /\ fault_at > 0 => (Len(calls) = fault_at /\ pc = "panicked")
    /\ \A i \in 1..Len(suspended) :
          /\ OncePerEnvelope(suspended[i].calls)
          /\ suspended[i].fault_at > 0 =>
                /\ Len(suspended[i].calls) = suspended[i].fault_at
                /\ suspended[i].pc = "panicked"
    /\ \A p \in 1..Len(hist) :
          /\ OncePerEnvelope(hist[p].calls)
          /\ hist[p].finished = reg_version =>
                hist[p].calls = ExpectedCallsFor(PlanWith(hist[p].skipped))

\* a pass in which a handler returned Err for an envelope and a later
\* invocation panicked, and the pass after it, which has returned: it
\* invoked both handlers for the envelopes of the same places, once each
C23_Witness ==
    /\ pc = "idle"
    /\ cur = 2
    /\ Len(hist) = 1
    /\ Len(log) = 1
    /\ log[1].error.pass = 1
    /\ \E i \in 1..Len(suspended) :
          LET first == suspended[i]
              c == log[1].error.call
              f == first.fault_at
          IN  /\ first.pc = "panicked"
              /\ first.cur = 1
              /\ c < f
              /\ Cardinality({ j \in 1..Len(hist[1].calls) :
                       /\ SameItem(hist[1].calls[j], first.calls[c])
                       /\ hist[1].calls[j].handler = first.calls[c].handler }) = 1
              /\ Cardinality({ j \in 1..Len(hist[1].calls) :
                       /\ SameItem(hist[1].calls[j], first.calls[f])
                       /\ hist[1].calls[j].handler = first.calls[f].handler }) = 1
              /\ Len(hist[1].calls) > Len(first.calls)

\* the handle_sync calls that ended in a panic
Panicked(calls_) ==
    { i \in 1..Len(calls_) : calls_[i].pc = "panicked" }

\* C24: a pass starts when the pass before has returned (or has ended in
\* a panic), so every invocation of the first of two passes, completion
\* included, comes before every invocation of the second; the invocations
\* of the first pass are those of its response dispatched alone with the
\* same answers of get_room, and the second pass changes nothing about
\* them.
C24_PassesInSequence ==
    /\ [][ pass' # pass =>
               /\ pass' = pass + 1
               /\ pc # "dispatch"
               /\ running = {}
               /\ pc = "idle" => snapshot = << >>
               /\ \A i \in 1..Len(suspended') : suspended'[i].pc = "panicked"
               /\ Len(hist) + Cardinality(Panicked(suspended')) = pass
               /\ calls' = << >> ]_vars
    /\ [][ calls' # calls =>
               /\ \A i \in 1..Len(suspended') : suspended'[i].pc = "panicked"
               /\ Len(hist) + Cardinality(Panicked(suspended')) = pass' - 1
               /\ hist' = hist ]_vars
    /\ [][ hist' # hist =>
               /\ hist' = Append(hist, hist'[Len(hist')])
               /\ hist'[Len(hist')].calls = calls
               /\ hist'[Len(hist')].skipped = skipped
               /\ plan = PlanWith(skipped)
               /\ calls = ExpectedCalls ]_vars

\* two passes over two responses have returned, both with invocations
\* and one with a failure; the second response is not the first, the room
\* store holds a room of the first response that the second does not
\* have, and the second pass passed over a room that did not resolve
C24_Witness ==
    /\ Len(hist) = 2
    /\ pc = "idle"
    /\ hist[2].skipped # {}
    /\ rooms \ RoomIds(response) # {}
    /\ hist[1].calls # << >>
    /\ hist[2].calls # << >>
    /\ hist[1].calls # hist[2].calls
    /\ hist[2].calls = ExpectedCalls
    /\ failures = 1
    /\ Len(registry["on_room_message"]) = 2

----------------------------------------------------------------------------
(* Properties of the presence events and of what a pass leaves alone.      *)

\* the presence envelopes of the plan that deserialize
PresenceAt == { k \in 1..Len(plan) : plan[k].phase = "presence" /\ plan[k].decoded }

\* C31: a presence handler is invoked without a room and without a room
\* context, whatever rooms resolve; the presence envelopes are dispatched
\* in the order of the response, and in a finished pass every one of them
\* that deserializes has had every presence handler, also when no room of
\* the response resolves.
C31_PresenceWithoutRooms ==
    /\ \A i \in 1..Len(calls) :
          (calls[i].phase = "presence" \/ calls[i].tag = "on_presence_event") =>
              /\ calls[i].phase = "presence"
              /\ calls[i].tag = "on_presence_event"
              /\ calls[i].room = NoRoom
              /\ calls[i].ctx.room = NoRoom
              /\ calls[i].ctx.shape = "none"
    /\ \A i, j \in 1..Len(calls) :
          (i < j /\ calls[i].phase = "presence" /\ calls[j].phase = "presence") =>
              calls[i].idx <= calls[j].idx
    /\ PassFinished =>
          Len(SelectSeq(plan, LAMBDA it : it.phase = "presence")) =
              Len(response.presence)
    /\ (PassFinished /\ RegistryUntouched) =>
          \A k \in PresenceAt :
              CalledFor(calls, k) = Ids(registry["on_presence_event"])

\* a finished pass over a response with rooms of which none resolves, in
\* which presence handlers were invoked for two presence envelopes and no
\* handler for an envelope of a room
C31_Witness ==
    /\ PassFinished
    /\ rooms = {}
    /\ Cardinality(RoomIds(response)) >= 3
    /\ \E a, b \in 1..Len(calls) :
          /\ calls[a].phase = "presence" /\ calls[b].phase = "presence"
          /\ calls[a].idx < calls[b].idx
    /\ \A i \in 1..Len(calls) : calls[i].room = NoRoom

\* C32: no step of a pass changes the registry or the response: the
\* registry changes in register and unregister calls alone, which leave
\* the pass where it is; the plan of a pass is that of the response as it
\* is, and every handler gets the envelope of the response.
C32_PassLeavesRegistryAndBatch ==
    /\ [][ reg_version' = reg_version =>
               /\ registry' = registry
               /\ next_handle' = next_handle ]_vars
    /\ [][ registry' # registry =>
               /\ pc' = pc
               /\ cursor' = cursor
               /\ calls' = calls
               /\ hist' = hist ]_vars
    /\ [][ response' = response ]_vars
    /\ [](pc = "dispatch" => IsPrefix(plan, PlanWith(skipped)))
    /\ [](PassFinished => plan = PlanWith(skipped))
    /\ [](\A i \in 1..Len(calls) :
            calls[i].ctx.raw = plan[ItemIndex(plan, calls[i])].ev)
    /\ [](\A p \in 1..Len(hist) :
            hist[p].finished = reg_version => hist[p].ids = LiveIds)

\* two passes have returned: handlers were invoked in the first, with no
\* register or unregister call while it ran and the handlers it left
\* still registered, and the registry was changed during the second
C32_Witness ==
    /\ Len(hist) = 2
    /\ pc = "idle"
    /\ hist[1].started = hist[1].finished
    /\ Len(hist[1].calls) >= 2
    /\ hist[2].started # hist[2].finished
    /\ hist[2].finished = reg_version
    /\ hist[2].ids = LiveIds
    /\ hist[2].ids # hist[1].ids

====
